---------------------------- MODULE Spec2Model ----------------------------
(***************************************************************************)
(* Voroboids: per-agent physics step, wall constraint, collision           *)
(* resolution and half-plane polygon tessellation.                         *)
(*                                                                         *)
(* Numbers.  The program computes on IEEE doubles.  Here every number is a *)
(* fixed-point integer counting units of 1/Scale, and every operation that *)
(* can produce a non-representable value (division, multiplication by a    *)
(* fraction, square root) rounds its result to a representable one, as the *)
(* floating-point operation does.  Products that are only compared with 0  *)
(* or divided by one another (dot products) are kept exact.                *)
(***************************************************************************)
EXTENDS Integers, Sequences, FiniteSets, TLC

VARIABLES
    clipPc,      \* "in" | "once" | "twice": how often the plane was applied
    clipIn,      \* polygon handed to clipPolygonByPlane
    clipPlane,   \* [point, normal] of the clipping plane
    clipOut1,    \* clipPolygonByPlane(clipIn, plane)
    clipOut2,    \* clipPolygonByPlane(clipOut1, plane)
    config,      \* VoroboidsSystem.config, the part assigned to voroboids
    activeMagnetContainer, \* VoroboidsSystem.activeMagnetContainer
    containers,  \* VoroboidsSystem.containers: id -> Container
    voroboids,   \* VoroboidsSystem.voroboids: sequence of Voroboid
    pc,          \* "idle" between frames; inside a frame the loop of
                 \* VoroboidsSystem.update that is running: "update", "polygons"
    cursor,      \* index of the voroboid that loop handles next
    frameDeltaTime, \* deltaTime of the running frame
    frames,      \* animation frames started so far
    events,      \* user and window events handled so far
    before,      \* the voroboids as the running frame found them (history only)
    last,        \* the operation that ran last and the voroboid it handled,
                 \* as the operation found it (history only)
    velIntegrated, \* Voroboid.update: velocity after the forces and the limit
    posIntegrated, \* Voroboid.update: position after the integration
    collided,    \* Voroboid.update: result of resolveCollisions
    walled,      \* Voroboid.update: result of constrainToWalls
    pushed,      \* per voroboid, how far resolveCollisions moved it in its
                 \* latest update (history only)
    clip,        \* Voroboid.computePolygon: result of the clipping loop
    animationId, \* VoroboidsSystem.animationId: the handle of the latest
                 \* requestAnimationFrame, null after stop
    requested,   \* the handles of requestAnimationFrame whose callback the
                 \* browser has still to run
    stopped,     \* stop() returned and start() was not called since
                 \* (history only)
    isMigrating, \* VoroboidsSystem.isMigrating of the migration variant
    targetContainerId, \* VoroboidsSystem.targetContainerId of that variant
    flightRenderer \* FlightRenderer: the voroboids it holds, in order

clipVars == <<clipPc, clipIn, clipPlane, clipOut1, clipOut2>>

stepVars == <<velIntegrated, posIntegrated, collided, walled, pushed, clip>>

sysVars == <<config, activeMagnetContainer, containers, voroboids, pc, cursor, frameDeltaTime, frames, events,
            before, last, stepVars>>

loopVars == <<animationId, requested, stopped>>

flightVars == <<isMigrating, targetContainerId, flightRenderer>>

otherVars == <<clipVars, loopVars, flightVars>>

vars == <<otherVars, sysVars>>

----------------------------------------------------------------------------
(* Number representation *)

\* units per 1.0 of a length, a velocity, a force or a plain factor
Scale == 100

\* units per 1.0 of an interpolation parameter (a quotient in [0, 1])
TScale == 10000

Abs(a) == IF a < 0 THEN -a ELSE a

Max(a, b) == IF a > b THEN a ELSE b

Min(a, b) == IF a < b THEN a ELSE b

\* a / b rounded to the nearest representable value (b # 0)
RDivPos(a, b) == IF a >= 0 THEN (2 * a + b) \div (2 * b)
                           ELSE -((2 * (-a) + b) \div (2 * b))

RDiv(a, b) == IF b > 0 THEN RDivPos(a, b) ELSE RDivPos(-a, -b)

\* product of two fixed-point numbers
FMul(a, b) == RDiv(a * b, Scale)

\* quotient of two fixed-point numbers
FDiv(a, b) == RDiv(a * Scale, b)

\* the first `digits` decimal digits of r / d for 0 <= r < d (long division,
\* so that no intermediate value exceeds 10 * d)
RECURSIVE FracDigits(_, _, _)
FracDigits(r, d, digits) ==
    IF digits = 0 THEN 0
    ELSE ((r * 10) \div d) * (10 ^ (digits - 1))
         + FracDigits((r * 10) % d, d, digits - 1)

RatioPos(n, d) == (n \div d) * TScale + FracDigits(n % d, d, 4)

\* n / d as an interpolation parameter (units of 1/TScale), d # 0
Ratio(n, d) ==
    LET nn == IF d < 0 THEN -n ELSE n
        dd == Abs(d)
    IN  IF nn >= 0 THEN RatioPos(nn, dd) ELSE -RatioPos(-nn, dd)

\* x * t for an interpolation parameter t
TMul(x, t) == RDiv(x * t, TScale)

RECURSIVE SqrtSearch(_, _, _)
SqrtSearch(n, lo, hi) ==
    IF lo >= hi THEN lo
    ELSE LET mid == (lo + hi + 1) \div 2
         IN  IF mid * mid <= n THEN SqrtSearch(n, mid, hi)
                               ELSE SqrtSearch(n, lo, mid - 1)

\* floor of the square root of a non-negative integer
ISqrt(n) == SqrtSearch(n, 0, 46340)

----------------------------------------------------------------------------
(* math.ts : vectors *)

vec2(x, y) == [x |-> x, y |-> y]

add(a, b) == vec2(a.x + b.x, a.y + b.y)

sub(a, b) == vec2(a.x - b.x, a.y - b.y)

\* scalar is a fixed-point number
mul(v, scalar) == vec2(FMul(v.x, scalar), FMul(v.y, scalar))

div(v, scalar) == IF scalar # 0 THEN vec2(FDiv(v.x, scalar), FDiv(v.y, scalar))
                                ELSE vec2(0, 0)

\* sqrt(x*x + y*y); components beyond 30000 are scaled down by k before they
\* are squared
scaledMagnitude(v, k) ==
    IF k = 1 THEN ISqrt(v.x * v.x + v.y * v.y)
    ELSE k * ISqrt((v.x \div k) * (v.x \div k) + (v.y \div k) * (v.y \div k))

magnitude(v) == scaledMagnitude(v, (Max(Abs(v.x), Abs(v.y)) \div 30000) + 1)

\* mag > 0 ? div(v, mag) : vec2(0, 0)
unit(v, mag) == IF mag > 0 THEN div(v, mag) ELSE vec2(0, 0)

normalize(v) == unit(v, magnitude(v))

limit(v, max) == IF magnitude(v) > max THEN mul(normalize(v), max) ELSE v

\* t is an interpolation parameter
lerp(a, b, t) == a + TMul(b - a, t)

lerpVec2(a, b, t) == vec2(lerp(a.x, b.x, t), lerp(a.y, b.y, t))

clamp(value, min, max) == Max(min, Min(max, value))

\* exact: the result counts units of 1/Scale^2
dot(a, b) == a.x * b.x + a.y * b.y

\* the closest point with its distance from p
closestAt(p, closest) == [point |-> closest, distance |-> magnitude(sub(p, closest))]

\* a + ab * t
alongSegment(a, ab, t) == vec2(a.x + TMul(ab.x, t), a.y + TMul(ab.y, t))

\* distance from point to segment, with the closest point
pointToSegment(p, a, b) ==
    IF dot(sub(b, a), sub(b, a)) = 0 THEN closestAt(p, a)
    ELSE closestAt(p, alongSegment(a, sub(b, a),
                       clamp(Ratio(dot(sub(p, a), sub(b, a)), dot(sub(b, a), sub(b, a))),
                             0, TScale)))

----------------------------------------------------------------------------
(* math.ts : polygons *)

RECURSIVE clipEdges(_, _, _, _)
clipEdges(polygon, planePoint, planeNormal, i) ==
    IF i > Len(polygon) THEN << >>
    ELSE
      LET current     == polygon[i]
          next        == polygon[(i % Len(polygon)) + 1]
          currentDist == dot(sub(current, planePoint), planeNormal)
          nextDist    == dot(sub(next, planePoint), planeNormal)
          kept        == IF currentDist <= 0 THEN << current >> ELSE << >>
          crosses     == \/ (currentDist > 0 /\ nextDist < 0)
                         \/ (currentDist < 0 /\ nextDist > 0)
          t           == Ratio(currentDist, currentDist - nextDist)
          cut         == IF crosses THEN << lerpVec2(current, next, t) >>
                                    ELSE << >>
      IN  kept \o cut \o clipEdges(polygon, planePoint, planeNormal, i + 1)

clipPolygonByPlane(polygon, planePoint, planeNormal) ==
    IF Len(polygon) < 3 THEN polygon
    ELSE clipEdges(polygon, planePoint, planeNormal, 1)

rectToPolygon(x, y, width, height) ==
    << vec2(x, y), vec2(x + width, y),
       vec2(x + width, y + height), vec2(x, y + height) >>

----------------------------------------------------------------------------
(* types.ts, main.ts : configuration *)

WallPolarity == {"inward", "outward", "solid", "permeable"}

\* VoroboidsSystem.config = {...DEFAULT_FLOCK_CONFIG, ...config of main.ts}
maxSpeed              == 4 * Scale
maxForce              == (3 * Scale) \div 10
wallRepulsionRange    == 60 * Scale
wallRepulsionStrength == (25 * Scale) \div 10
damping               == (4 * Scale) \div 10
gravityStrength       == 3 * Scale
separationWeight      == (15 * Scale) \div 10
cohesionWeight        == Scale
alignmentWeight       == Scale

blobRadius == 25 * Scale

settleThreshold == Scale \div 2

settleDelay == 200

----------------------------------------------------------------------------
(* Container (Maxwell's Demon region, four walls of one polarity) *)

\* a container is [worldX, worldY, width, height, wallPolarity, walls, magnet]

\* Container.rebuildWalls: top, right, bottom, left, each with the
\* container's current polarity
rebuildWalls(c) ==
    LET x == c.worldX
        y == c.worldY
        w == c.width
        h == c.height
    IN  [c EXCEPT !.walls =
          << [start |-> vec2(x, y), end |-> vec2(x + w, y),
              polarity |-> c.wallPolarity, inwardNormal |-> vec2(0, Scale)],
             [start |-> vec2(x + w, y), end |-> vec2(x + w, y + h),
              polarity |-> c.wallPolarity, inwardNormal |-> vec2(-Scale, 0)],
             [start |-> vec2(x + w, y + h), end |-> vec2(x, y + h),
              polarity |-> c.wallPolarity, inwardNormal |-> vec2(0, -Scale)],
             [start |-> vec2(x, y + h), end |-> vec2(x, y),
              polarity |-> c.wallPolarity, inwardNormal |-> vec2(1 * Scale, 0)] >>]

\* Container.updateMagnet: the magnet sits at the centre of the container
updateMagnet(c) ==
    [c EXCEPT !.magnet.position = vec2(c.worldX + c.width \div 2,
                                       c.worldY + c.height \div 2)]

\* Container.updatePosition: take the element's rectangle, rebuild the walls
updatePosition(c, rect) ==
    updateMagnet(rebuildWalls(
        [c EXCEPT !.worldX = rect.x, !.worldY = rect.y,
                  !.width = rect.width, !.height = rect.height]))

\* a setPolarity that leaves the existing walls as they are
setPolarityOfField(c, polarity) == [c EXCEPT !.wallPolarity = polarity]

\* Container.setPolarity: the field and every existing wall
setPolarity(c, polarity) ==
    [c EXCEPT !.wallPolarity = polarity,
              !.walls = [k \in DOMAIN c.walls |->
                            [c.walls[k] EXCEPT !.polarity = polarity]]]

getPolarity(c) == c.wallPolarity

getBounds(c) == [x |-> c.worldX, y |-> c.worldY, width |-> c.width, height |-> c.height]

getMagnet(c) == c.magnet

containsPoint(c, point) ==
    /\ point.x >= c.worldX /\ point.x <= c.worldX + c.width
    /\ point.y >= c.worldY /\ point.y <= c.worldY + c.height

getCenter(c) == vec2(c.worldX + c.width \div 2, c.worldY + c.height \div 2)

\* new Container(element): no walls until the first updatePosition
newContainer(rect) ==
    updateMagnet([worldX |-> 0, worldY |-> 0,
                  width |-> rect.width, height |-> rect.height,
                  wallPolarity |-> "inward", walls |-> << >>,
                  magnet |-> [position |-> vec2(0, 0), strength |-> Scale \div 2]])

----------------------------------------------------------------------------
(* Voroboid : forces.  `self` and the members of `neighbors` are voroboid    *)
(* records; `neighbors` is the system's whole array, self included.         *)

\* Voroboid.computeGravity: the container magnet carries no direction, so the
\* pull is of constant strength toward the magnet position
computeGravity(self, magnet) ==
    IF magnitude(sub(magnet.position, self.position)) > 0
    THEN mul(normalize(sub(magnet.position, self.position)), gravityStrength)
    ELSE vec2(0, 0)

\* d > 0 && d < range
within(d, range) == d > 0 /\ d < range

\* the neighbours of self (by index) that a flocking rule takes into account
near(self, neighbors, range) ==
    { k \in DOMAIN neighbors :
        /\ neighbors[k].id # self.id
        /\ within(magnitude(sub(self.position, neighbors[k].position)), range) }

\* one member of a non-empty set of indices
pick(S) == CHOOSE k \in S : TRUE

\* mul(sum, 1 / count)
average(sum, count) == vec2(RDiv(sum.x, count), RDiv(sum.y, count))

\* 1/(d*d) is far below 1/Scale; the weighted directions are summed in units
\* of 1/(Scale * SepUnits) and only their direction is used afterwards
SepUnits == 5 * 1000000

\* mul(diff, 1 / (d * d))
inverseSquare(diff, d) ==
    vec2(RDiv(SepUnits * diff.x, d * d), RDiv(SepUnits * diff.y, d * d))

weightedAway(delta) == inverseSquare(normalize(delta), magnitude(delta))

separationSteer(self, steer) ==
    IF magnitude(steer) > 0
    THEN limit(sub(mul(normalize(steer), maxSpeed), self.velocity), maxForce * 2)
    ELSE steer

\* the sum of the weighted directions away from the neighbours in S
RECURSIVE sumAway(_, _, _)
sumAway(self, neighbors, S) ==
    IF S = {} THEN vec2(0, 0)
    ELSE add(weightedAway(sub(self.position, neighbors[pick(S)].position)),
             sumAway(self, neighbors, S \ {pick(S)}))

separationOf(self, neighbors, close) ==
    IF close = {} THEN vec2(0, 0)
    ELSE separationSteer(self, average(sumAway(self, neighbors, close),
                                       Cardinality(close)))

computeSeparation(self, neighbors) ==
    separationOf(self, neighbors, near(self, neighbors, FMul(blobRadius, 250)))

cohesionSteer(self, desired) ==
    IF magnitude(desired) > 0
    THEN limit(sub(mul(normalize(desired), FMul(maxSpeed, 50)), self.velocity), maxForce)
    ELSE vec2(0, 0)

RECURSIVE sumPositions(_, _)
sumPositions(neighbors, S) ==
    IF S = {} THEN vec2(0, 0)
    ELSE add(neighbors[pick(S)].position, sumPositions(neighbors, S \ {pick(S)}))

cohesionOf(self, neighbors, close) ==
    IF close = {} THEN vec2(0, 0)
    ELSE cohesionSteer(self, sub(average(sumPositions(neighbors, close),
                                         Cardinality(close)),
                                 self.position))

computeCohesion(self, neighbors) ==
    cohesionOf(self, neighbors, near(self, neighbors, blobRadius * 6))

alignmentSteer(self, avgVel) ==
    IF magnitude(avgVel) > 0
    THEN limit(sub(mul(normalize(avgVel), maxSpeed), self.velocity), maxForce)
    ELSE vec2(0, 0)

RECURSIVE sumVelocities(_, _)
sumVelocities(neighbors, S) ==
    IF S = {} THEN vec2(0, 0)
    ELSE add(neighbors[pick(S)].velocity, sumVelocities(neighbors, S \ {pick(S)}))

alignmentOf(self, neighbors, close) ==
    IF close = {} THEN vec2(0, 0)
    ELSE alignmentSteer(self, average(sumVelocities(neighbors, close),
                                      Cardinality(close)))

computeAlignment(self, neighbors) ==
    alignmentOf(self, neighbors, near(self, neighbors, blobRadius * 5))

\* strength * strength
squared(strength) == FMul(strength, strength)

\* the push of one wall; ps is pointToSegment(position, wall.start, wall.end)
wallPush(position, ps) ==
    IF ps.distance < wallRepulsionRange /\ ps.distance > 0
    THEN mul(normalize(sub(position, ps.point)),
             squared(FDiv(wallRepulsionRange - ps.distance, wallRepulsionRange)))
    ELSE vec2(0, 0)

\* Voroboid.computeWallRepulsion: every wall in range pushes, whatever its
\* polarity
RECURSIVE repulsionFrom(_, _, _)
repulsionFrom(position, walls, k) ==
    IF k > Len(walls) THEN vec2(0, 0)
    ELSE add(wallPush(position, pointToSegment(position, walls[k].start, walls[k].end)),
             repulsionFrom(position, walls, k + 1))

computeWallRepulsion(self, walls) == repulsionFrom(self.position, walls, 1)

----------------------------------------------------------------------------
(* Voroboid : hard constraints and the update step *)

\* blobRadius * 1.8
minDist == FMul(blobRadius, 180)

\* blobRadius * 0.8
margin == FMul(blobRadius, 80)

\* velocity minus 0.3 of the component of relVel along normalDir
dampedRelative(velocity, relVel, normalDir) ==
    sub(velocity, mul(mul(normalDir, RDiv(dot(relVel, normalDir), Scale)), 30))

\* Voroboid.resolveCollisions of voroboid `id`, from neighbour k on.  `pushes`
\* records every correction applied.
RECURSIVE resolveFrom(_, _, _, _, _, _)

\* the branch `dist > 0 && dist < minDist`
pushApart(id, position, velocity, neighbors, k, pushes, normalDir, overlap) ==
    resolveFrom(id, add(position, mul(normalDir, FMul(overlap, 50))),
                dampedRelative(velocity, sub(velocity, neighbors[k].velocity), normalDir),
                neighbors, k + 1,
                Append(pushes, [other |-> neighbors[k].id, overlap |-> overlap,
                                correction |-> mul(normalDir, FMul(overlap, 50))]))

resolveOne(id, position, velocity, neighbors, k, pushes, diff, dist) ==
    IF neighbors[k].id # id /\ dist > 0 /\ dist < minDist
    THEN pushApart(id, position, velocity, neighbors, k, pushes,
                   normalize(diff), minDist - dist)
    ELSE resolveFrom(id, position, velocity, neighbors, k + 1, pushes)

resolveFrom(id, position, velocity, neighbors, k, pushes) ==
    IF k > Len(neighbors)
    THEN [position |-> position, velocity |-> velocity, pushes |-> pushes]
    ELSE resolveOne(id, position, velocity, neighbors, k, pushes,
                    sub(position, neighbors[k].position),
                    magnitude(sub(position, neighbors[k].position)))

resolveCollisions(id, position, velocity, neighbors) ==
    resolveFrom(id, position, velocity, neighbors, 1, << >>)

\* velocity.x * (-away.x) + velocity.y * (-away.y), exact
velTowardWall(velocity, away) == velocity.x * (-away.x) + velocity.y * (-away.y)

\* the velocity after `if (velTowardWall > 0) velocity = sub(velocity,
\* mul(away, -velTowardWall * 0.5))`
dampedToward(velocity, away) ==
    IF velTowardWall(velocity, away) > 0
    THEN sub(velocity, mul(away, FMul(-RDiv(velTowardWall(velocity, away), Scale), 50)))
    ELSE velocity

\* Voroboid.constrainToWalls, from wall k on.  `hits` records, for every wall
\* whose branch `distance < margin` ran, what the branch saw and did.
RECURSIVE constrainFrom(_, _, _, _, _)

\* the branch `distance < margin`: push away from the wall, dampen velocity
pushAway(position, velocity, walls, k, hits, ps, away) ==
    constrainFrom(add(position, mul(away, margin - ps.distance)),
                  dampedToward(velocity, away), walls, k + 1,
                  Append(hits, [wall |-> k, distance |-> ps.distance, away |-> away,
                                posBefore |-> position,
                                posAfter |-> add(position, mul(away, margin - ps.distance)),
                                velBefore |-> velocity,
                                velAfter |-> dampedToward(velocity, away)]))

constrainOne(position, velocity, walls, k, hits, ps) ==
    IF ps.distance < margin
    THEN pushAway(position, velocity, walls, k, hits, ps,
                  normalize(sub(position, ps.point)))
    ELSE constrainFrom(position, velocity, walls, k + 1, hits)

constrainFrom(position, velocity, walls, k, hits) ==
    IF k > Len(walls) THEN [position |-> position, velocity |-> velocity, hits |-> hits]
    ELSE constrainOne(position, velocity, walls, k, hits,
                      pointToSegment(position, walls[k].start, walls[k].end))

constrainToWalls(position, velocity, walls) ==
    constrainFrom(position, velocity, walls, 1, << >>)

\* Voroboid.checkSettled.  settleTime is only ever compared with settleDelay,
\* so it is held at settleDelay + 1 once it has passed it.
\* a checkSettled that keeps the flag and the time of a voroboid that moves
\* again
checkSettledOnly(self, deltaTime) ==
    IF magnitude(self.velocity) < settleThreshold
    THEN [self EXCEPT !.settleTime = Min(@ + deltaTime, settleDelay + 1),
                      !.settled = IF self.settleTime + deltaTime > settleDelay
                                  THEN TRUE ELSE @]
    ELSE self

checkSettled(self, deltaTime) ==
    IF magnitude(self.velocity) < settleThreshold
    THEN [self EXCEPT !.settleTime = Min(@ + deltaTime, settleDelay + 1),
                      !.settled = IF self.settleTime + deltaTime > settleDelay
                                  THEN TRUE ELSE @]
    ELSE [self EXCEPT !.settleTime = 0, !.settled = FALSE]

\* the sum of the forces applied in update
acceleration(self, neighbors, walls, magnet, hasMagnet) ==
    add(add(add(add(add(IF hasMagnet THEN computeGravity(self, magnet) ELSE vec2(0, 0),
                        mul(computeSeparation(self, neighbors), separationWeight)),
                    mul(computeCohesion(self, neighbors), FMul(cohesionWeight, 30))),
                mul(computeAlignment(self, neighbors), FMul(alignmentWeight, 20))),
            mul(computeWallRepulsion(self, walls), wallRepulsionStrength)),
        mul(self.velocity, -damping))

\* this.velocity = limit(add(this.velocity, this.acceleration), maxSpeed)
integratedVelocity(self, neighbors, walls, magnet, hasMagnet) ==
    limit(add(self.velocity, acceleration(self, neighbors, walls, magnet, hasMagnet)),
          maxSpeed)

\* this.position = add(this.position, mul(this.velocity, deltaTime * 0.06))
integratedPosition(self, velocity, deltaTime) ==
    add(self.position, mul(velocity, deltaTime * 6))

\* the voroboid at the end of update: the constraints' results are stored and
\* checkSettled has run
constrained(self, result, deltaTime) ==
    checkSettled([self EXCEPT !.position = result.position,
                              !.velocity = result.velocity], deltaTime)

----------------------------------------------------------------------------
(* Voroboid : tessellation *)

\* twice the signed area, exact, in units of 1/Scale^2
RECURSIVE crossSum(_, _)
crossSum(polygon, i) ==
    IF i > Len(polygon) THEN 0
    ELSE LET j == (i % Len(polygon)) + 1
         IN  polygon[i].x * polygon[j].y - polygon[j].x * polygon[i].y
             + crossSum(polygon, i + 1)

\* signed area as a fixed-point number
polygonArea(polygon) ==
    IF Len(polygon) < 3 THEN 0 ELSE RDiv(crossSum(polygon, 1), 2 * Scale)

\* Math.PI * blobRadius * blobRadius * weight, with 355/113 for Math.PI
\* Math.PI * radius * radius * weight
circleArea(radius, weight) == RDiv(355 * FMul(FMul(radius, radius), weight), 113)

\* the field initialiser `blobRadius: number = 25`
defaultBlobRadius == 25 * Scale

targetAreaOf(weight) == circleArea(defaultBlobRadius, weight)

\* cos and sin of (i / 8) * 2 * PI, as interpolation-parameter units
cos8(i) == << 10000, 7071, 0, -7071, -10000, -7071, 0, 7071 >>[i + 1]

sin8(i) == << 0, 7071, 10000, 7071, 0, -7071, -10000, -7071 >>[i + 1]

getFallbackPolygon(self) ==
    [ i \in 1..8 |-> vec2(self.position.x + TMul(blobRadius, cos8(i - 1)),
                          self.position.y + TMul(blobRadius, sin8(i - 1))) ]

\* length of the perimeter up to the start of segment i
RECURSIVE cumulative(_, _)
cumulative(polygon, i) ==
    IF i <= 1 THEN 0
    ELSE cumulative(polygon, i - 1)
         + magnitude(sub(polygon[((i - 1) % Len(polygon)) + 1], polygon[i - 1]))

\* the last segment that starts at or before targetDist
segmentAt(polygon, targetDist) ==
    LET later == { j \in 1..Len(polygon) : cumulative(polygon, j) <= targetDist }
    IN  IF later = {} THEN 1 ELSE CHOOSE j \in later : \A m \in later : m <= j

\* seg.length > 0 ? distIntoSeg / seg.length : 0
fraction(distIntoSeg, length) == IF length > 0 THEN Ratio(distIntoSeg, length) ELSE 0

withinSegment(segStart, segEnd, distIntoSeg) ==
    lerpVec2(segStart, segEnd,
             Min(TScale, Max(0, fraction(distIntoSeg, magnitude(sub(segEnd, segStart))))))

sampleIn(polygon, targetDist, segIdx) ==
    withinSegment(polygon[segIdx], polygon[(segIdx % Len(polygon)) + 1],
                  targetDist - cumulative(polygon, segIdx))

sampleAt(polygon, targetDist) ==
    sampleIn(polygon, targetDist, segmentAt(polygon, targetDist))

resampleAlong(polygon, targetCount, totalLength) ==
    IF totalLength = 0 THEN [ i \in 1..targetCount |-> polygon[1] ]
    ELSE [ i \in 1..targetCount |->
             sampleAt(polygon, RDiv((i - 1) * totalLength, targetCount)) ]

resamplePolygon(polygon, targetCount) ==
    IF Len(polygon) = 0 \/ targetCount < 3 THEN polygon
    ELSE resampleAlong(polygon, targetCount, cumulative(polygon, Len(polygon) + 1))

\* smoothingFactor = 0.15
smoothingFactor == (15 * TScale) \div 100

blend(from, target, factor) ==
    [ i \in 1..Len(target) |-> lerpVec2(from[i], target[i], factor) ]

smoothPolygon(self, target) ==
    IF Len(self.polygon) = 0 THEN target
    ELSE IF Len(self.polygon) # Len(target)
    THEN blend(resamplePolygon(self.polygon, Len(target)), target, smoothingFactor * 2)
    ELSE blend(self.polygon, target, smoothingFactor)

\* Math.max(0.1, pressure)
floored(pressure) == Max(Scale \div 10, pressure)

\* myPressure / (myPressure + theirPressure), an interpolation parameter
pressureRatio(self, neighbor) ==
    Ratio(floored(self.pressure), floored(self.pressure) + floored(neighbor.pressure))

\* lerp from this position to the neighbour's position
bisectorPoint(self, neighbor) ==
    lerpVec2(self.position, neighbor.position, pressureRatio(self, neighbor))

\* the clip of computePolygon against one neighbour's bisector
clipByNeighbor(self, neighbor, polygon) ==
    clipPolygonByPlane(polygon, bisectorPoint(self, neighbor),
                       normalize(sub(neighbor.position, self.position)))

\* the clipping loop of computePolygon from neighbour k on; stops at the
\* first clip that leaves fewer than 3 vertices
RECURSIVE clipAgainst(_, _, _, _)

\* a clipping loop that lacks the `polygon.length < 3` exit
afterClipUnchecked(self, neighbors, clipped, k) ==
    clipAgainst(self, neighbors, clipped, k + 1)

afterClip(self, neighbors, clipped, k) ==
    IF Len(clipped) < 3
    THEN [polygon |-> getFallbackPolygon(self), fallback |-> TRUE]
    ELSE clipAgainst(self, neighbors, clipped, k + 1)

clipAgainst(self, neighbors, polygon, k) ==
    IF k > Len(neighbors) THEN [polygon |-> polygon, fallback |-> FALSE]
    ELSE IF \/ neighbors[k].id = self.id
            \/ magnitude(sub(self.position, neighbors[k].position)) > blobRadius * 6
    THEN clipAgainst(self, neighbors, polygon, k + 1)
    ELSE afterClip(self, neighbors, clipByNeighbor(self, neighbors[k], polygon), k)

\* a pressure kept within 0.5 .. 2
pressureClamped(targetArea, currentArea) ==
    IF currentArea > 0
    THEN clamp(FDiv(targetArea, currentArea), Scale \div 2, 2 * Scale)
    ELSE Scale

\* this.pressure = currentArea > 0 ? targetArea / currentArea : 1
pressureOf(targetArea, currentArea) ==
    IF currentArea > 0 THEN FDiv(targetArea, currentArea) ELSE Scale

withArea(self, polygon, area) ==
    [self EXCEPT !.polygon = polygon,
                 !.currentArea = area,
                 !.pressure = pressureOf(self.targetArea, area)]

\* the end of computePolygon: the smoothed polygon, its area, the pressure
stored(self, polygon) == withArea(self, polygon, Abs(polygonArea(polygon)))

\* the clipping loop of computePolygon, started from the container bounds
clippedPolygon(self, neighbors, containerBounds) ==
    clipAgainst(self, neighbors,
                rectToPolygon(containerBounds.x, containerBounds.y,
                              containerBounds.width, containerBounds.height),
                1)

----------------------------------------------------------------------------
(* VoroboidsSystem *)

\* VoroboidsSystem.getAllWalls: the walls of every container, in the order
\* the containers were registered
getAllWalls(cs) == cs["a"].walls \o cs["b"].walls

getMagnetForVoroboid(cs, voroboid) == getMagnet(cs[voroboid.targetContainerId])

\* VoroboidsSystem.updateContainerPositions with the elements' rectangles
updateContainerPositions(cs, rects) ==
    [id \in DOMAIN cs |-> updatePosition(cs[id], rects[id])]

\* VoroboidsSystem.registerContainer for both containers of main
registerContainers(rects, polarityA, polarityB) ==
    LET a == updatePosition(setPolarity(newContainer(rects["a"]), polarityA), rects["a"])
        b == updatePosition(setPolarity(newContainer(rects["b"]), polarityB), rects["b"])
    IN  [id \in {"a", "b"} |-> IF id = "a" THEN a ELSE b]

\* weights of main, one per voroboid id
weights == << 200, 50, 150, 60, 180, 70, 120, 80 >>

\* new Voroboid(cfg) as VoroboidsSystem.initializeVoroboids places it
newVoroboid(id, containerId, position, velocity) ==
    [id |-> id, weight |-> weights[(id % 8) + 1],
     position |-> position, velocity |-> velocity,
     settled |-> FALSE, settleTime |-> 0,
     polygon |-> << >>, currentArea |-> 0, pressure |-> Scale,
     targetArea |-> targetAreaOf(weights[(id % 8) + 1]),
     targetContainerId |-> containerId]

----------------------------------------------------------------------------
(* The running program: main registers two containers, spawns the voroboids *)
(* in container a and starts the animation loop; buttons, the public        *)
(* Container API and window resizes arrive between frames.                  *)

NumVoroboids == 2

MaxFrames == 2

MaxEvents == 2

\* milliseconds between two animation frames, as capped by loop()
DeltaTimes == {16, 32}

rect(x, y, width, height) == [x |-> x, y |-> y, width |-> width, height |-> height]

\* bounding rectangles of the two container elements relative to the world
\* element, a on the left: a's left edge at x, b of the given width
laidOut(x, widthB) ==
    [id \in {"a", "b"} |->
        IF id = "a" THEN rect(x, 0, 100 * Scale, 100 * Scale)
                    ELSE rect(x + 150 * Scale, 0, widthB, 100 * Scale)]

\* as first laid out
FirstLayout == laidOut(0, 100 * Scale)

\* after a resize: as before, both moved to the right, or no width left for b
Layouts == { FirstLayout, laidOut(38 * Scale, 100 * Scale), laidOut(0, 0) }

\* Math.random() in initializeVoroboids: position inside the padded bounds,
\* velocity of speed 2..5 in any direction
padding == 40 * Scale

Spawns(bounds) ==
    { [position |-> vec2(bounds.x + padding, bounds.y + padding),
       velocity |-> vec2(-3 * Scale, 0)],
      [position |-> vec2(bounds.x + padding + 15 * Scale, bounds.y + padding + 5 * Scale),
       velocity |-> vec2(0, 4 * Scale)] }

\* VoroboidsSystem.initializeVoroboids(containerId, configs)
initializeVoroboids(cs, containerId, spawn) ==
    [ i \in 1..NumVoroboids |->
        newVoroboid(i - 1, containerId, spawn[i].position, spawn[i].velocity) ]

\* the history of an operation that handles no single voroboid
idle(op) == [op |-> op, self |-> << >>, walls |-> << >>]

NoStep ==
    /\ velIntegrated = vec2(0, 0)
    /\ posIntegrated = vec2(0, 0)
    /\ collided = [position |-> vec2(0, 0), velocity |-> vec2(0, 0), pushes |-> << >>]
    /\ walled = [position |-> vec2(0, 0), velocity |-> vec2(0, 0), hits |-> << >>]
    /\ pushed = [i \in DOMAIN voroboids |-> vec2(0, 0)]
    /\ clip = [polygon |-> << >>, fallback |-> FALSE]

ClipOff ==
    /\ clipPc = "off"
    /\ clipIn = << >>
    /\ clipPlane = [point |-> vec2(0, 0), normal |-> vec2(0, 0)]
    /\ clipOut1 = << >>
    /\ clipOut2 = << >>

\* the value of animationId when no frame is requested; the handles of
\* requestAnimationFrame are positive
null == 0

\* the animation loop was never started
LoopOff ==
    /\ animationId = null
    /\ requested = {}
    /\ stopped = FALSE

\* no migration under way, the flight renderer empty
FlightOff ==
    /\ isMigrating = FALSE
    /\ targetContainerId = "none"
    /\ flightRenderer = << >>

OthersOff == ClipOff /\ LoopOff /\ FlightOff

Init ==
    /\ OthersOff
    /\ config = [blobRadius |-> blobRadius]
    /\ activeMagnetContainer = "a"
    /\ containers = registerContainers(FirstLayout, "inward", "solid")
    /\ \E spawn \in [1..NumVoroboids -> Spawns(getBounds(containers["a"]))] :
          voroboids = initializeVoroboids(containers, "a", spawn)
    /\ pc = "idle"
    /\ cursor = 1
    /\ frameDeltaTime = 0
    /\ frames = 0
    /\ events = 0
    /\ before = voroboids
    /\ last = idle("main")
    /\ NoStep

\* VoroboidsSystem.loop: an animation frame starts; deltaTime is the time
\* since the last frame, at most 32
Loop(dt) ==
    /\ pc = "idle"
    /\ frames < MaxFrames
    /\ pc' = "update"
    /\ cursor' = 1
    /\ frameDeltaTime' = dt
    /\ frames' = frames + 1
    /\ before' = voroboids
    /\ last' = idle("loop")
    /\ UNCHANGED <<containers, voroboids, events, stepVars, config, activeMagnetContainer, otherVars>>

\* the loop over the voroboids moves on; after the last voroboid it ends
Advance(nextPc) ==
    IF cursor < Len(voroboids)
    THEN cursor' = cursor + 1 /\ pc' = pc
    ELSE cursor' = 1 /\ pc' = nextPc

\* VoroboidsSystem.update, first loop: voroboid.update(deltaTime,
\* this.voroboids, allWalls, this.config, magnet) for the next voroboid
UpdateVoroboid ==
    /\ pc = "update"
    /\ last' = [op |-> "update", self |-> voroboids[cursor],
                walls |-> getAllWalls(containers)]
    /\ velIntegrated' =
          integratedVelocity(voroboids[cursor], voroboids, getAllWalls(containers),
                             getMagnetForVoroboid(containers, voroboids[cursor]), TRUE)
    /\ posIntegrated' =
          integratedPosition(voroboids[cursor], velIntegrated', frameDeltaTime)
    /\ collided' =
          resolveCollisions(voroboids[cursor].id, posIntegrated', velIntegrated', voroboids)
    /\ walled' =
          constrainToWalls(collided'.position, collided'.velocity, getAllWalls(containers))
    /\ pushed' = [pushed EXCEPT ![cursor] = sub(collided'.position, posIntegrated')]
    /\ voroboids' =
          [voroboids EXCEPT ![cursor] = constrained(@, walled', frameDeltaTime)]
    /\ Advance("polygons")
    /\ UNCHANGED <<containers, frameDeltaTime, frames, events, before, clip, config, activeMagnetContainer, otherVars>>

\* VoroboidsSystem.computePolygons: voroboid.computePolygon(this.voroboids,
\* containerBounds) for the next voroboid; after the last one the frame is
\* over
ComputePolygon ==
    /\ pc = "polygons"
    /\ last' = [op |-> "computePolygon", self |-> voroboids[cursor], walls |-> << >>]
    /\ clip' =
          clippedPolygon(voroboids[cursor], voroboids,
                         getBounds(containers[voroboids[cursor].targetContainerId]))
    /\ voroboids' =
          [voroboids EXCEPT ![cursor] = stored(@, smoothPolygon(@, clip'.polygon))]
    /\ Advance("idle")
    /\ UNCHANGED <<containers, frameDeltaTime, frames, events, before,
                   velIntegrated, posIntegrated, collided, walled, pushed, config, activeMagnetContainer, otherVars>>

\* VoroboidsSystem.pourTo(targetId)
\* a pourTo that traps in the target and forgets to release the source
pourPolaritiesOfTarget(cs, targetId) ==
    [cs EXCEPT ![targetId] = setPolarity(@, "inward")]

\* pourTo: the source container turns outward, the target container inward
pourPolarities(cs, targetId) ==
    [cs EXCEPT ![IF targetId = "a" THEN "b" ELSE "a"] = setPolarity(@, "outward"),
               ![targetId] = setPolarity(@, "inward")]

\* Voroboid.setTargetContainer(targetId, dist)
setTargetContainer(voroboid, targetId, dist) ==
    [voroboid EXCEPT !.targetContainerId = targetId]

\* pourTo: the loop body for one voroboid
kicked(voroboid, targetId, center) ==
    LET toCenter == sub(center, voroboid.position)
        kickDir  == IF magnitude(toCenter) > Scale THEN normalize(toCenter)
                                                   ELSE vec2(0, 0)
    IN  [setTargetContainer(voroboid, targetId, magnitude(toCenter))
            EXCEPT !.velocity = add(voroboid.velocity, mul(kickDir, 3 * Scale))]

\* VoroboidsSystem.pourTo(targetId); an id that is not registered returns
\* at once
PourTo(targetId) ==
    /\ pc = "idle"
    /\ events < MaxEvents
    /\ IF targetId \in DOMAIN containers
       THEN /\ containers' = pourPolarities(containers, targetId)
            /\ activeMagnetContainer' = targetId
            /\ voroboids' = [k \in DOMAIN voroboids |->
                               kicked(voroboids[k], targetId,
                                      getCenter(containers[targetId]))]
       ELSE UNCHANGED <<containers, activeMagnetContainer, voroboids>>
    /\ events' = events + 1
    /\ last' = [op |-> "pourTo", self |-> targetId, walls |-> << >>]
    /\ UNCHANGED <<pc, cursor, frameDeltaTime, frames, before, stepVars, config, otherVars>>

\* VoroboidsSystem.solidifyAll
SolidifyAll ==
    /\ pc = "idle"
    /\ events < MaxEvents
    /\ containers' = [id \in DOMAIN containers |-> setPolarity(containers[id], "solid")]
    /\ events' = events + 1
    /\ last' = idle("solidifyAll")
    /\ UNCHANGED <<voroboids, pc, cursor, frameDeltaTime, frames, before, stepVars,
                   config, activeMagnetContainer, otherVars>>

\* system.getContainer(id).setPolarity(polarity)
SetPolarity(id, polarity) ==
    /\ pc = "idle"
    /\ events < MaxEvents
    /\ containers' = [containers EXCEPT ![id] = setPolarity(@, polarity)]
    /\ events' = events + 1
    /\ last' = idle("setPolarity")
    /\ UNCHANGED <<voroboids, pc, cursor, frameDeltaTime, frames, before, stepVars,
                   config, activeMagnetContainer, otherVars>>

\* the reset button of main
Reset ==
    /\ pc = "idle"
    /\ events < MaxEvents
    /\ LET cs == [containers EXCEPT !["a"] = setPolarity(@, "inward"),
                                    !["b"] = setPolarity(@, "solid")]
       IN  /\ containers' = cs
           /\ \E spawn \in [1..NumVoroboids -> Spawns(getBounds(cs["a"]))] :
                 voroboids' = initializeVoroboids(cs, "a", spawn)
    /\ activeMagnetContainer' = "a"
    /\ events' = events + 1
    /\ last' = idle("reset")
    /\ UNCHANGED <<pc, cursor, frameDeltaTime, frames, before, stepVars, config, otherVars>>

\* the window resize listener of main
Resize(layout) ==
    /\ pc = "idle"
    /\ events < MaxEvents
    /\ containers' = updateContainerPositions(containers, layout)
    /\ events' = events + 1
    /\ last' = idle("resize")
    /\ UNCHANGED <<voroboids, pc, cursor, frameDeltaTime, frames, before, stepVars,
                   config, activeMagnetContainer, otherVars>>

Next ==
    \/ \E dt \in DeltaTimes : Loop(dt)
    \/ UpdateVoroboid
    \/ ComputePolygon
    \/ \E targetId \in {"a", "b", "c"} : PourTo(targetId)
    \/ SolidifyAll
    \/ \E id \in {"a", "b"}, polarity \in WallPolarity : SetPolarity(id, polarity)
    \/ Reset
    \/ \E layout \in Layouts : Resize(layout)

Spec == Init /\ [][Next]_vars

----------------------------------------------------------------------------
(* Two voroboids of chosen weights placed in container a, and the frames    *)
(* that follow.                                                             *)

\* new Voroboid(cfg) for a configuration of the given weight
weighing(voroboid, weight) ==
    [voroboid EXCEPT !.weight = weight, !.targetArea = targetAreaOf(weight)]

\* weights of the two configurations handed to initializeVoroboids
PairWeights == { << 200, 50 >>, << 100, 100 >> }

\* where initializeVoroboids puts the two: 40 apart, on top of each other,
\* 10 apart, 72 apart
PairPositions ==
    { << vec2(30 * Scale, 50 * Scale), vec2(70 * Scale, 50 * Scale) >>,
      << vec2(50 * Scale, 50 * Scale), vec2(50 * Scale, 50 * Scale) >>,
      << vec2(45 * Scale, 50 * Scale), vec2(55 * Scale, 50 * Scale) >>,
      << vec2(20 * Scale, 30 * Scale), vec2(80 * Scale, 70 * Scale) >> }

PairVelocities ==
    { << vec2(0, 0), vec2(0, 0) >>,
      << vec2(-3 * Scale, 0), vec2(0, 4 * Scale) >>,
      << vec2(2 * Scale, 0), vec2(2 * Scale, 0) >> }

PairInit ==
    /\ OthersOff
    /\ config = [blobRadius |-> blobRadius]
    /\ activeMagnetContainer = "a"
    /\ containers = registerContainers(FirstLayout, "inward", "solid")
    /\ \E w \in PairWeights, p \in PairPositions, v \in PairVelocities :
          voroboids = [ i \in 1..2 |-> weighing(newVoroboid(i - 1, "a", p[i], v[i]), w[i]) ]
    /\ pc = "idle"
    /\ cursor = 1
    /\ frameDeltaTime = 0
    /\ frames = 0
    /\ events = 0
    /\ before = voroboids
    /\ last = idle("main")
    /\ NoStep

PairNext ==
    \/ \E dt \in DeltaTimes : Loop(dt)
    \/ UpdateVoroboid
    \/ ComputePolygon

PairSpec == PairInit /\ [][PairNext]_vars

----------------------------------------------------------------------------
(* A system constructed with a configuration of its own, whose voroboids    *)
(* are created from configurations handed to initializeVoroboids.  Here a   *)
(* voroboid record carries its blobRadius field.                            *)

\* blobRadius of the Partial<FlockConfig> given to new VoroboidsSystem
ConfigRadii == { 20 * Scale, 25 * Scale, 30 * Scale }

\* weight of a VoroboidConfig (a number)
ConfigWeights == { -50, 0, 50, 200 }

\* new Voroboid(cfg)
constructed(cfg) ==
    [id |-> cfg.id, weight |-> cfg.weight, blobRadius |-> defaultBlobRadius,
     position |-> vec2(0, 0), velocity |-> vec2(0, 0),
     settled |-> FALSE, settleTime |-> 0,
     polygon |-> << >>, currentArea |-> 0, pressure |-> Scale,
     targetArea |-> circleArea(defaultBlobRadius, cfg.weight),
     targetContainerId |-> ""]

\* the body of the loop of initializeVoroboids for one configuration
initialized(cfg, radius, containerId, position, velocity) ==
    [constructed(cfg) EXCEPT !.blobRadius = radius,
                             !.position = position,
                             !.velocity = velocity,
                             !.targetContainerId = containerId]

SetupInit ==
    /\ OthersOff
    /\ config \in [blobRadius : ConfigRadii]
    /\ activeMagnetContainer = "a"
    /\ containers = registerContainers(FirstLayout, "inward", "solid")
    /\ voroboids = << >>
    /\ pc = "idle"
    /\ cursor = 1
    /\ frameDeltaTime = 0
    /\ frames = 0
    /\ events = 0
    /\ before = << >>
    /\ last = idle("main")
    /\ NoStep

\* VoroboidsSystem.initializeVoroboids(containerId, configs)
InitializeVoroboids(containerId, cfgs, spawn) ==
    /\ pc = "idle"
    /\ voroboids' = [ i \in DOMAIN cfgs |->
                        initialized(cfgs[i], config.blobRadius, containerId,
                                    spawn[i].position, spawn[i].velocity) ]
    /\ activeMagnetContainer' = containerId
    /\ last' = idle("initializeVoroboids")
    /\ UNCHANGED <<config, containers, pc, cursor, frameDeltaTime, frames, events,
                   before, stepVars, otherVars>>

SetupNext ==
    \E weight \in [1..2 -> ConfigWeights],
       spawn \in [1..2 -> Spawns(getBounds(containers["a"]))] :
        InitializeVoroboids("a", [i \in 1..2 |-> [id |-> i - 1, weight |-> weight[i]]], spawn)

SetupSpec == SetupInit /\ [][SetupNext]_vars

----------------------------------------------------------------------------
(* One voroboid poured from a container with an open side toward the        *)
(* container next to it, with the animation loop running for ever.          *)

\* Container.rebuildWalls of container.ts: a wall for every side but the
\* opening, in the order top, right, bottom, left
wallsAround(x, y, w, h, opening) ==
    (IF opening # "top" THEN << [start |-> vec2(x, y), end |-> vec2(x + w, y)] >>
     ELSE << >>)
    \o (IF opening # "right"
        THEN << [start |-> vec2(x + w, y), end |-> vec2(x + w, y + h)] >> ELSE << >>)
    \o (IF opening # "bottom"
        THEN << [start |-> vec2(x + w, y + h), end |-> vec2(x, y + h)] >> ELSE << >>)
    \o (IF opening # "left"
        THEN << [start |-> vec2(x, y + h), end |-> vec2(x, y)] >> ELSE << >>)

\* new Container(canvas, opening, worldX, worldY) of container.ts
openContainer(bounds, opening) ==
    [worldX |-> bounds.x, worldY |-> bounds.y,
     width |-> bounds.width, height |-> bounds.height,
     opening |-> opening,
     walls |-> wallsAround(bounds.x, bounds.y, bounds.width, bounds.height, opening)]

\* container a with its right side open: without a wall there, or with its
\* walls permeable
OpenContainers ==
    { openContainer(FirstLayout["a"], "right"),
      updatePosition(setPolarity(newContainer(FirstLayout["a"]), "permeable"),
                     FirstLayout["a"]) }

\* where the voroboid is when it is poured, and how fast it moves
LiveStarts ==
    { [position |-> vec2(x, y), velocity |-> velocity] :
        x \in {30 * Scale, 50 * Scale, 70 * Scale},
        y \in {40 * Scale, 50 * Scale},
        velocity \in {vec2(0, 0), vec2(-3 * Scale, 0), vec2(2 * Scale, 2 * Scale)} }

LiveInit ==
    /\ OthersOff
    /\ config = [blobRadius |-> blobRadius]
    /\ activeMagnetContainer = "b"
    /\ \E a \in OpenContainers :
          containers = [id \in {"a", "b"} |->
                          IF id = "a" THEN a
                          ELSE updatePosition(newContainer(FirstLayout["b"]),
                                              FirstLayout["b"])]
    /\ \E start \in LiveStarts :
          voroboids = << [newVoroboid(0, "a", start.position, start.velocity)
                            EXCEPT !.targetContainerId = "b"] >>
    /\ pc = "idle"
    /\ cursor = 1
    /\ frameDeltaTime \in DeltaTimes
    /\ frames = 0
    /\ events = 0
    /\ before = voroboids
    /\ last = idle("main")
    /\ NoStep

\* VoroboidsSystem.loop at a steady frame rate
LiveLoop ==
    /\ pc = "idle"
    /\ pc' = "update"
    /\ cursor' = 1
    /\ before' = voroboids
    /\ last' = idle("loop")
    /\ UNCHANGED <<containers, voroboids, frameDeltaTime, frames, events, stepVars,
                   config, activeMagnetContainer, otherVars>>

LiveNext ==
    \/ LiveLoop
    \/ UpdateVoroboid
    \/ ComputePolygon

\* the loop over the voroboids of update, and that of computePolygons, end
UpdateEnds == pc = "update" /\ pc' = "polygons"

TessellationEnds == pc = "polygons" /\ pc' = "idle"

\* requestAnimationFrame keeps calling loop, and a frame runs to its end
LiveSpec ==
    /\ LiveInit /\ [][LiveNext]_vars
    /\ WF_pc(LiveLoop) /\ WF_pc(UpdateEnds) /\ WF_pc(TessellationEnds)

----------------------------------------------------------------------------
(* One voroboid in container a, at rest on the magnet or near it, with the  *)
(* animation loop running and the pour buttons in use.                      *)

SettleStarts ==
    { [position |-> vec2(50 * Scale, 50 * Scale), velocity |-> vec2(0, 0)],
      [position |-> vec2(50 * Scale, 50 * Scale), velocity |-> vec2(30, 0)],
      [position |-> vec2(50 * Scale, 50 * Scale), velocity |-> vec2(-3 * Scale, 0)],
      [position |-> vec2(40 * Scale, 40 * Scale), velocity |-> vec2(0, 0)] }

SettleInit ==
    /\ OthersOff
    /\ config = [blobRadius |-> blobRadius]
    /\ activeMagnetContainer = "a"
    /\ containers = registerContainers(FirstLayout, "inward", "solid")
    /\ \E start \in SettleStarts :
          voroboids = << newVoroboid(0, "a", start.position, start.velocity) >>
    /\ pc = "idle"
    /\ cursor = 1
    /\ frameDeltaTime \in DeltaTimes
    /\ frames = 0
    /\ events = 0
    /\ before = voroboids
    /\ last = idle("main")
    /\ NoStep

SettleFrames == 14

MaxPours == 1

\* VoroboidsSystem.loop at a steady frame rate, for a bounded number of frames
SettleLoop ==
    /\ pc = "idle"
    /\ frames < SettleFrames
    /\ pc' = "update"
    /\ cursor' = 1
    /\ frames' = frames + 1
    /\ before' = voroboids
    /\ last' = idle("loop")
    /\ UNCHANGED <<containers, voroboids, frameDeltaTime, events, stepVars,
                   config, activeMagnetContainer, otherVars>>

\* a pour button of main
SettlePour(targetId) == events < MaxPours /\ PourTo(targetId)

SettleNext ==
    \/ SettleLoop
    \/ UpdateVoroboid
    \/ ComputePolygon
    \/ \E targetId \in {"a", "b"} : SettlePour(targetId)

SettleSpec == SettleInit /\ [][SettleNext]_vars

----------------------------------------------------------------------------
(* The animation loop of VoroboidsSystem alone: start, stop and the frames  *)
(* the browser runs; what a frame does to the voroboids is left out.        *)

\* a system with no container and no voroboid, between frames
SystemOff ==
    /\ config = [blobRadius |-> blobRadius]
    /\ activeMagnetContainer = "a"
    /\ containers = << >>
    /\ voroboids = << >>
    /\ pc = "idle"
    /\ cursor = 1
    /\ frameDeltaTime = 0
    /\ events = 0
    /\ before = << >>
    /\ NoStep

\* how many times loop runs
MaxLoops == 7

\* how many times start and stop are called
MaxCalls == 4

LoopInit ==
    /\ ClipOff
    /\ LoopOff
    /\ FlightOff
    /\ SystemOff
    /\ frames = 0
    /\ last = idle("none")

\* cancelAnimationFrame(handle): the callback of that request never runs
cancelAnimationFrame(pending, handle) == pending \ {handle}

\* a stop that forgets the handle and cancels nothing
stopOf(pending, handle) == pending

\* VoroboidsSystem.stop: the requests left when the latest one is cancelled
stop(pending, handle) ==
    IF handle # null THEN cancelAnimationFrame(pending, handle) ELSE pending

\* VoroboidsSystem.loop: one frame (update, then render), and the request
\* of the next; requestAnimationFrame returns a handle never used before
loop(op, dt) ==
    /\ frames < MaxLoops
    /\ frames' = frames + 1
    /\ frameDeltaTime' = dt
    /\ animationId' = frames + 1
    /\ last' = idle(op)

\* VoroboidsSystem.start: loop runs at once, whatever is scheduled already
Start ==
    /\ events < MaxCalls
    /\ events' = events + 1
    /\ loop("start", 0)
    /\ requested' = requested \cup {animationId'}
    /\ stopped' = FALSE
    /\ UNCHANGED <<config, activeMagnetContainer, containers, voroboids, pc, cursor,
                   before, stepVars, clipVars, flightVars>>

\* VoroboidsSystem.stop
Stop ==
    /\ events < MaxCalls
    /\ events' = events + 1
    /\ requested' = stop(requested, animationId)
    /\ animationId' = null
    /\ stopped' = TRUE
    /\ last' = idle("stop")
    /\ UNCHANGED <<config, activeMagnetContainer, containers, voroboids, pc, cursor,
                   frameDeltaTime, frames, before, stepVars, clipVars, flightVars>>

\* the browser runs the callback of a request: loop
AnimationFrame(handle) ==
    /\ handle \in requested
    /\ \E dt \in DeltaTimes : loop("loop", dt)
    /\ requested' = (requested \ {handle}) \cup {animationId'}
    /\ UNCHANGED <<config, activeMagnetContainer, containers, voroboids, pc, cursor,
                   events, before, stepVars, stopped, clipVars, flightVars>>

LoopNext ==
    \/ Start
    \/ Stop
    \/ \E handle \in 1..MaxLoops : AnimationFrame(handle)

LoopSpec == LoopInit /\ [][LoopNext]_vars

----------------------------------------------------------------------------
(* The migration variant: containers that hold their voroboids and hand     *)
(* them to a flight renderer for the way to the other container.            *)
(* A container's list and the flight renderer's list hold the ids of the    *)
(* Voroboid objects; voroboids maps an id to the object.                    *)

\* how many voroboids container a holds at first
FlockSize == 3

\* how many times migrate is called
MaxMigrations == 3

\* how many frames run
MaxFlightFrames == 4

\* where the voroboids of the flock may be, in their container
FlockPositions == { vec2(20 * Scale, 30 * Scale), vec2(60 * Scale, 30 * Scale),
                    vec2(40 * Scale, 70 * Scale) }

\* new Voroboid(cfg) of the migration variant, placed in a container's layout
flockVoroboid(id, position) ==
    [id |-> id, position |-> position, cell |-> "a", targetCell |-> "none",
     laneT |-> 0, launched |-> FALSE, arrived |-> FALSE, updates |-> 0]

\* new Container(canvas, opening, absoluteX, absoluteY) of the variant
flockContainer(opening, absoluteX, list) ==
    [bounds |-> rect(0, 0, 100 * Scale, 100 * Scale), opening |-> opening,
     absoluteX |-> absoluteX, absoluteY |-> 0, voroboids |-> list]

MigrationInit ==
    /\ ClipOff
    /\ LoopOff
    /\ FlightOff
    /\ config = [blobRadius |-> blobRadius]
    /\ activeMagnetContainer = "a"
    /\ \E oa \in {"right", "bottom"}, ob \in {"left", "top"} :
          containers = [id \in {"a", "b"} |->
                          IF id = "a"
                          THEN flockContainer(oa, 0, [i \in 1..FlockSize |-> i])
                          ELSE flockContainer(ob, 150 * Scale, << >>)]
    /\ \E at \in [1..FlockSize -> FlockPositions] :
          /\ \A i \in 1..FlockSize - 1 : at[i] # at[i + 1]
          /\ voroboids = [i \in 1..FlockSize |-> flockVoroboid(i, at[i])]
    /\ pc = "idle"
    /\ cursor = 1
    /\ frameDeltaTime = 0
    /\ frames = 0
    /\ events = 0
    /\ before = [moved |-> << >>, found |-> << >>]
    /\ last = idle("none")
    /\ NoStep

\* the ids a list holds
held(list) == { list[k] : k \in DOMAIN list }

\* what prepareMigration sorts by: y when the opening is left or right,
\* x otherwise
sortKey(opening, voroboid) ==
    IF opening \in {"left", "right"} THEN voroboid.position.y
    ELSE voroboid.position.x

\* the index, from 0, of list[k] once the list is sorted (the sort is stable)
sortedIndex(heap, opening, list, k) ==
    Cardinality({ j \in DOMAIN list :
                    \/ sortKey(opening, heap[list[j]]) < sortKey(opening, heap[list[k]])
                    \/ /\ sortKey(opening, heap[list[j]]) = sortKey(opening, heap[list[k]])
                       /\ j < k })

\* laneT = (i + 0.5) / numVoroboids
laneOf(i, numVoroboids) == Ratio(2 * i + 1, 2 * numVoroboids)

\* Container.prepareMigration, for the voroboids: the cells of the target's
\* layout (computeVoronoi, setTargetCell) and the launch (prepareLaunch)
preparedVoroboids(heap, from, toId) ==
    [id \in DOMAIN heap |->
        IF \E k \in DOMAIN from.voroboids : from.voroboids[k] = id
        THEN LET k == CHOOSE k \in DOMAIN from.voroboids : from.voroboids[k] = id
             IN  [heap[id] EXCEPT
                    !.cell = toId, !.targetCell = toId,
                    !.laneT = laneOf(sortedIndex(heap, from.opening, from.voroboids, k),
                                     Len(from.voroboids)),
                    !.launched = TRUE, !.arrived = FALSE]
        ELSE heap[id]]

\* Container.prepareMigration, for the containers: the target is given the
\* source's list to lay it out, then the source is given an empty one
prepareMigration(cs, fromId, toId) ==
    [[cs EXCEPT ![toId].voroboids = cs[fromId].voroboids]
        EXCEPT ![fromId].voroboids = << >>]

\* VoroboidsSystem.migrate(fromId, toId) of the migration variant
Migrate(fromId, toId) ==
    /\ pc = "idle"
    /\ events < MaxMigrations
    /\ events' = events + 1
    /\ IF isMigrating \/ containers[fromId].voroboids = << >>
       THEN /\ UNCHANGED <<containers, voroboids, flightVars>>
            /\ before' = [before EXCEPT !.found = <<containers, voroboids, flightVars>>]
            /\ last' = [op |-> "migrate refused", self |-> <<fromId, toId>>, walls |-> << >>]
       ELSE /\ voroboids' = preparedVoroboids(voroboids, containers[fromId], toId)
            /\ containers' = prepareMigration(containers, fromId, toId)
            /\ flightRenderer' = containers[fromId].voroboids
            /\ isMigrating' = TRUE
            /\ targetContainerId' = toId
            /\ before' = [moved |-> containers[fromId].voroboids,
                          found |-> <<containers, voroboids, flightVars>>]
            /\ last' = [op |-> "migrate", self |-> <<fromId, toId>>, walls |-> << >>]
    /\ UNCHANGED <<config, activeMagnetContainer, pc, cursor, frameDeltaTime, frames,
                   stepVars, clipVars, loopVars>>

\* how many times the loop of VoroboidsSystem.update over the containers,
\* and that of Container.update over its list, reach voroboid id
containerUpdates(cs, id) ==
    Cardinality({ <<c, k>> \in {"a", "b"} \X (1..FlockSize) :
                    k \in DOMAIN cs[c].voroboids /\ cs[c].voroboids[k] = id })

\* FlightRenderer.update: every voroboid it holds is updated once, and
\* those of the set arriving reach the end of their path
flightUpdates(flying, id) == IF id \in held(flying) THEN 1 ELSE 0

\* the voroboids after the updates of one frame
updatedFlock(heap, cs, flying, arriving) ==
    [id \in DOMAIN heap |->
        [heap[id] EXCEPT !.updates = containerUpdates(cs, id) + flightUpdates(flying, id),
                         !.arrived = @ \/ id \in arriving]]

\* FlightRenderer.allArrived
allArrived(heap, flying) == \A id \in held(flying) : heap[id].arrived

\* the arrived voroboids in the target container: positions relative to
\* the container, cells from setVoroboids
landed(heap, flying, target, toId) ==
    [id \in DOMAIN heap |->
        IF id \in held(flying)
        THEN [heap[id] EXCEPT
                !.position = vec2(@.x - target.absoluteX, @.y - target.absoluteY),
                !.cell = toId]
        ELSE heap[id]]

\* VoroboidsSystem.update of the migration variant: one frame
FlightFrame ==
    /\ pc = "idle"
    /\ frames < MaxFlightFrames
    /\ frames' = frames + 1
    /\ \E arriving \in SUBSET held(flightRenderer) :
          LET flown == updatedFlock(voroboids, containers,
                                    IF isMigrating THEN flightRenderer ELSE << >>,
                                    IF isMigrating THEN arriving ELSE {})
          IN  IF isMigrating /\ allArrived(flown, flightRenderer)
                 /\ targetContainerId \in DOMAIN containers
              THEN /\ voroboids' = landed(flown, flightRenderer,
                                          containers[targetContainerId], targetContainerId)
                   /\ containers' =
                         IF flightRenderer # << >>
                         THEN [containers EXCEPT ![targetContainerId].voroboids = flightRenderer]
                         ELSE containers
                   /\ flightRenderer' = << >>
                   /\ isMigrating' = FALSE
                   /\ targetContainerId' = "none"
                   /\ last' = [op |-> "landed", self |-> targetContainerId, walls |-> << >>]
              ELSE /\ voroboids' = flown
                   /\ last' = [op |-> "update", self |-> targetContainerId, walls |-> << >>]
                   /\ UNCHANGED <<containers, flightVars>>
    /\ UNCHANGED <<config, activeMagnetContainer, pc, cursor, frameDeltaTime, events,
                   before, stepVars, clipVars, loopVars>>

MigrationNext ==
    \/ \E fromId, toId \in {"a", "b"} : Migrate(fromId, toId)
    \/ FlightFrame

MigrationSpec == MigrationInit /\ [][MigrationNext]_vars

----------------------------------------------------------------------------
(* The voroboid with two modes, settled and migrating, alone in its         *)
(* container: with no neighbour but itself the separation, cohesion and     *)
(* alignment of its update are zero. A field that may be null is a          *)
(* sequence, empty for null; an opening that is null is "null".             *)

\* DEFAULT_FLOCK_CONFIG.maxSpeed of the flocking configuration
flockMaxSpeed == 8 * Scale

\* how many updates run
MaxAgentUpdates == 12

\* how many times startMigration and arriveAtTarget are called
MaxAgentCalls == 2

\* deltaTime of a frame; this loop does not cap it
AgentDeltaTimes == {16, 32, 400}

OpeningSides == {"top", "right", "bottom", "left"}

\* new Voroboid(config) of the two-mode voroboid, at a position
newAgent(position) ==
    [id |-> 0, position |-> position, velocity |-> vec2(0, 0),
     mode |-> "settled",
     containerBounds |-> << >>, containerOpening |-> "null",
     targetBounds |-> << >>, targetOpening |-> "null",
     targetAbsoluteOffset |-> vec2(0, 0),
     morphProgress |-> 0]

\* Voroboid.setContainer
setContainer(self, bounds, opening) ==
    [self EXCEPT !.containerBounds = << bounds >>, !.containerOpening = opening]

\* Voroboid.startMigration
startMigration(self, targetBounds, targetOpening, absoluteOffset) ==
    [self EXCEPT !.mode = "migrating",
                 !.targetBounds = << targetBounds >>,
                 !.targetOpening = targetOpening,
                 !.targetAbsoluteOffset = absoluteOffset,
                 !.morphProgress = TScale]

\* an arrival that keeps the target it has reached
arriveAtTargetKeeping(self) ==
    [self EXCEPT !.containerBounds = self.targetBounds,
                 !.containerOpening = self.targetOpening,
                 !.mode = "settled"]

\* Voroboid.arriveAtTarget
arriveAtTarget(self) ==
    [self EXCEPT !.containerBounds = self.targetBounds,
                 !.containerOpening = self.targetOpening,
                 !.targetBounds = << >>,
                 !.targetOpening = "null",
                 !.mode = "settled"]

\* the push of one wall at distance dist, zero out of range
wallStrength(dist, range) ==
    IF dist < range /\ dist > 0 THEN squared(FDiv(range - dist, range)) ELSE 0

\* Voroboid.computeWallRepulsion(bounds, opening, range) of the two-mode
\* voroboid: away from the closed sides that are in range
wallRepulsionIn(position, bounds, opening, range) ==
    vec2((IF opening # "left" THEN wallStrength(position.x - bounds.x, range) ELSE 0)
         - (IF opening # "right"
            THEN wallStrength(bounds.x + bounds.width - position.x, range) ELSE 0),
         (IF opening # "top" THEN wallStrength(position.y - bounds.y, range) ELSE 0)
         - (IF opening # "bottom"
            THEN wallStrength(bounds.y + bounds.height - position.y, range) ELSE 0))

\* Voroboid.getExitTarget: a point outside the container, past the opening
getExitTarget(bounds, opening, distance) ==
    CASE opening = "top" -> vec2(bounds.x + bounds.width \div 2, bounds.y - distance)
      [] opening = "bottom" ->
            vec2(bounds.x + bounds.width \div 2, bounds.y + bounds.height + distance)
      [] opening = "left" -> vec2(bounds.x - distance, bounds.y + bounds.height \div 2)
      [] opening = "right" ->
            vec2(bounds.x + bounds.width + distance, bounds.y + bounds.height \div 2)

\* Voroboid.hasExitedContainer
hasExitedContainer(position, bounds, opening) ==
    CASE opening = "top" -> position.y < bounds.y - 10 * Scale
      [] opening = "bottom" -> position.y > bounds.y + bounds.height + 10 * Scale
      [] opening = "left" -> position.x < bounds.x - 10 * Scale
      [] opening = "right" -> position.x > bounds.x + bounds.width + 10 * Scale

\* update in settled mode, in a container: walls, damping, morph to the cell
settledStep(self, deltaTime) ==
    [agent |-> [self EXCEPT !.morphProgress = Max(0, @ - deltaTime * 30)],
     acceleration |->
        add(mul(wallRepulsionIn(self.position, self.containerBounds[1],
                                self.containerOpening, 50 * Scale), 3 * Scale),
            mul(self.velocity, -15))]

\* update in migrating mode, still in the source container: to the exit
exitingStep(self) ==
    [agent |->
        IF hasExitedContainer(self.position, self.containerBounds[1], self.containerOpening)
        THEN [self EXCEPT !.containerBounds = << >>, !.containerOpening = "null"]
        ELSE self,
     acceleration |->
        add(mul(normalize(sub(getExitTarget(self.containerBounds[1],
                                            self.containerOpening, 60 * Scale),
                              self.position)),
                (flockMaxSpeed * 8) \div 10),
            mul(wallRepulsionIn(self.position, self.containerBounds[1],
                                self.containerOpening, 30 * Scale), 2 * Scale))]

\* the point a voroboid in flight heads for, in absolute coordinates
absoluteTarget(self) ==
    add(getExitTarget(self.targetBounds[1], self.targetOpening, 30 * Scale),
        self.targetAbsoluteOffset)

\* update in migrating mode, in flight: to the target, arriving within 30
flyingStep(self) ==
    [agent |->
        IF magnitude(sub(absoluteTarget(self), self.position)) < 30 * Scale
        THEN arriveAtTarget([self EXCEPT
                               !.position = sub(self.position, self.targetAbsoluteOffset)])
        ELSE self,
     acceleration |->
        add(mul(normalize(sub(absoluteTarget(self), self.position)), flockMaxSpeed),
            mul(self.velocity, -2))]

\* the branches of Voroboid.update
modeStep(self, deltaTime) ==
    IF self.mode = "settled" /\ self.containerBounds # << >>
    THEN settledStep(self, deltaTime)
    ELSE IF self.mode = "migrating"
    THEN LET step ==
               IF self.containerBounds # << >> /\ self.containerOpening # "null"
               THEN exitingStep(self)
               ELSE IF self.targetBounds # << >> /\ self.targetOpening # "null"
               THEN flyingStep(self)
               ELSE [agent |-> self, acceleration |-> vec2(0, 0)]
         IN  [step EXCEPT !.agent.morphProgress = TScale]
    ELSE [agent |-> self, acceleration |-> vec2(0, 0)]

\* the velocity after `add(velocity, acceleration)` and the limit
flockVelocity(velocity, force) == limit(add(velocity, force), flockMaxSpeed)

\* Voroboid.update of the two-mode voroboid, its neighbours being itself
updatedAgent(self, deltaTime) ==
    LET step == modeStep(self, deltaTime)
    IN  [step.agent EXCEPT
           !.velocity = flockVelocity(self.velocity, step.acceleration),
           !.position = integratedPosition(step.agent,
                                           flockVelocity(self.velocity, step.acceleration),
                                           deltaTime)]

\* the bounds of a container of this variant, relative to the container
flockBounds == rect(0, 0, 100 * Scale, 100 * Scale)

AgentStarts == { vec2(50 * Scale, 50 * Scale), vec2(80 * Scale, 30 * Scale) }

AgentInit ==
    /\ ClipOff
    /\ LoopOff
    /\ FlightOff
    /\ config = [blobRadius |-> blobRadius]
    /\ activeMagnetContainer = "a"
    /\ containers = << >>
    /\ \E position \in AgentStarts, opening \in {"right", "bottom", "null"} :
          voroboids = << IF opening = "null" THEN newAgent(position)
                         ELSE setContainer(newAgent(position), flockBounds, opening) >>
    /\ pc = "idle"
    /\ cursor = 1
    /\ frameDeltaTime \in AgentDeltaTimes
    /\ frames = 0
    /\ events = 0
    /\ before = voroboids
    /\ last = [op |-> "none", self |-> voroboids[1], walls |-> << >>]
    /\ NoStep

\* an operation of the voroboid ran
agentOp(op, self) ==
    /\ voroboids' = << self >>
    /\ last' = [op |-> op, self |-> voroboids[1], walls |-> << >>]
    /\ UNCHANGED <<config, activeMagnetContainer, containers, pc, cursor, frameDeltaTime,
                   before, stepVars, otherVars>>

\* the container starts the migration of its voroboid to the container
\* that lies to its right or below it
StartMigration(targetOpening, absoluteOffset) ==
    /\ events < MaxAgentCalls
    /\ events' = events + 1
    /\ frames' = frames
    /\ agentOp("startMigration",
               startMigration(voroboids[1], flockBounds, targetOpening, absoluteOffset))

\* arriveAtTarget called from outside update
ArriveAtTarget ==
    /\ events < MaxAgentCalls
    /\ events' = events + 1
    /\ frames' = frames
    /\ agentOp("arriveAtTarget", arriveAtTarget(voroboids[1]))

\* Voroboid.update in a frame
AgentUpdate ==
    /\ frames < MaxAgentUpdates
    /\ frames' = frames + 1
    /\ events' = events
    /\ agentOp("update", updatedAgent(voroboids[1], frameDeltaTime))

AgentNext ==
    \/ \E targetOpening \in {"left", "top"},
          absoluteOffset \in {vec2(150 * Scale, 0), vec2(0, 150 * Scale)} :
          StartMigration(targetOpening, absoluteOffset)
    \/ ArriveAtTarget
    \/ AgentUpdate

AgentSpec == AgentInit /\ [][AgentNext]_vars

----------------------------------------------------------------------------
(* The container with an opening, alone: it is moved and its opening is     *)
(* rotated.                                                                 *)

\* how many times rotateOpening and setWorldPosition are called
MaxTurns == 6

\* where the container may be put, in px
WorldOrigins == {0, 40}

\* the sizes of the canvas
CanvasSizes == { [width |-> 100 * Scale, height |-> 100 * Scale],
                 [width |-> 60 * Scale, height |-> 120 * Scale] }

\* rebuildWalls of container.ts
rebuiltWalls(c) ==
    [c EXCEPT !.walls = wallsAround(c.worldX, c.worldY, c.width, c.height, c.opening)]

\* Container.setWorldPosition
setWorldPosition(c, worldX, worldY) ==
    rebuiltWalls([c EXCEPT !.worldX = worldX, !.worldY = worldY])

\* `sequence` of rotateOpening
sequence == << "right", "bottom", "left", "top" >>

\* sequence.indexOf(opening), from 0
indexOf(opening) == (CHOOSE i \in DOMAIN sequence : sequence[i] = opening) - 1

\* a rotateOpening that leaves the walls as they were
rotateOpeningOnly(c) ==
    [c EXCEPT !.opening = sequence[((indexOf(c.opening) + 1) % 4) + 1]]

\* Container.rotateOpening
rotateOpening(c) ==
    rebuiltWalls([c EXCEPT !.opening = sequence[((indexOf(c.opening) + 1) % 4) + 1]])

ContainerInit ==
    /\ ClipOff
    /\ LoopOff
    /\ FlightOff
    /\ SystemOff
    /\ frames = 0
    /\ last = idle("constructor")

\* new Container(canvas, opening, worldX, worldY)
Construct(size, opening, worldX, worldY) ==
    /\ last.op = "constructor"
    /\ containers = << >>
    /\ containers' = [id \in {"a"} |->
                        openContainer(rect(worldX, worldY, size.width, size.height),
                                      opening)]
    /\ before' = << >>
    /\ last' = [op |-> "new", self |-> << >>, walls |-> << >>]
    /\ UNCHANGED <<config, activeMagnetContainer, voroboids, pc, cursor, frameDeltaTime,
                   frames, events, stepVars, otherVars>>

\* Container.rotateOpening; before keeps the container as every call of
\* a run of rotateOpening calls found it
RotateOpening ==
    /\ containers # << >>
    /\ events < MaxTurns
    /\ events' = events + 1
    /\ containers' = [containers EXCEPT !["a"] = rotateOpening(@)]
    /\ before' = Append(before, containers["a"])
    /\ last' = [op |-> "rotateOpening", self |-> containers["a"], walls |-> << >>]
    /\ UNCHANGED <<config, activeMagnetContainer, voroboids, pc, cursor, frameDeltaTime,
                   frames, stepVars, otherVars>>

\* Container.setWorldPosition
SetWorldPosition(worldX, worldY) ==
    /\ containers # << >>
    /\ events < MaxTurns
    /\ events' = events + 1
    /\ containers' = [containers EXCEPT !["a"] = setWorldPosition(@, worldX, worldY)]
    /\ before' = << >>
    /\ last' = [op |-> "setWorldPosition", self |-> containers["a"], walls |-> << >>]
    /\ UNCHANGED <<config, activeMagnetContainer, voroboids, pc, cursor, frameDeltaTime,
                   frames, stepVars, otherVars>>

ContainerNext ==
    \/ \E size \in CanvasSizes, opening \in OpeningSides,
          worldX, worldY \in { o * Scale : o \in WorldOrigins } :
          Construct(size, opening, worldX, worldY)
    \/ RotateOpening
    \/ \E worldX, worldY \in { o * Scale : o \in WorldOrigins } :
          SetWorldPosition(worldX, worldY)

ContainerSpec == ContainerInit /\ [][ContainerNext]_vars

\* the side of a that is open has no wall
sideAbsent == Len(containers["a"].walls) = 3

\* the voroboid is beyond the right side of a
outsideOnOpenSide ==
    voroboids[1].position.x > containers["a"].worldX + containers["a"].width

\* C5: a single agent in a container with one open (absent or permeable)
\* side, whose seek target lies beyond that side, is eventually outside the
\* container bounds on the open side.
C5_EventuallyOutside == <>outsideOnOpenSide

C5_Witness ==
    /\ ~sideAbsent
    /\ last.op = "update"
    /\ \E i \in DOMAIN walled.hits : walled.hits[i].wall = 2
    /\ ~outsideOnOpenSide

\* what holds of C5: through a side without a wall the agent gets out
AbsentSideLetsOut == sideAbsent => <>outsideOnOpenSide

\* a permeable side holds the agent back for ever
PermeableSideHolds == ~sideAbsent => []~outsideOnOpenSide

----------------------------------------------------------------------------
(* Properties of the wall constraint and of collision resolution *)

\* the voroboid that the last update or computePolygon handled, as it is now
handled == voroboids[last.self.id + 1]

\* the wall that a record of constrainToWalls is about
wallOf(hit) == last.walls[hit.wall]

\* velocity . inwardNormal of the wall, exact
alongInward(velocity, wall) == dot(velocity, wall.inwardNormal)

\* the records of constrainToWalls in the update that ran last
Hits == IF last.op = "update" THEN { walled.hits[i] : i \in DOMAIN walled.hits } ELSE {}

\* C1: a solid wall blocks the agent; a permeable wall never applies the
\* hard-contact position/velocity correction, even when the agent is closer
\* to the segment than the margin.
C1_PermeableNeverCorrects ==
    \A hit \in Hits :
        /\ wallOf(hit).polarity # "permeable"
        /\ wallOf(hit).polarity = "solid" => hit.distance < margin

C1_Witness ==
    \E hit \in Hits : wallOf(hit).polarity = "permeable" /\ hit.posAfter # hit.posBefore

\* what holds of C1: a solid wall closer than the margin corrects the agent
SolidWallCorrects ==
    last.op = "update" =>
        \A k \in DOMAIN last.walls :
            ( /\ last.walls[k].polarity = "solid"
              /\ \A hit \in Hits : hit.wall >= k
              /\ pointToSegment(collided.position, last.walls[k].start,
                                last.walls[k].end).distance < margin )
            => \E hit \in Hits : hit.wall = k

\* C2: an inward wall never blocks an agent whose velocity has a positive
\* component along inwardNormal; it blocks an agent within the margin whose
\* component along inwardNormal is below -0.1, and afterwards the velocity has
\* no outward component left.
C2_InwardWall ==
    \A hit \in Hits :
        wallOf(hit).polarity = "inward" =>
            /\ ~(alongInward(hit.velBefore, wallOf(hit)) > 0)
            /\ alongInward(hit.velBefore, wallOf(hit)) < -(Scale \div 10) * Scale
                   => alongInward(hit.velAfter, wallOf(hit)) >= 0

C2_Witness ==
    \E hit \in Hits :
        /\ wallOf(hit).polarity = "inward"
        /\ alongInward(hit.velBefore, wallOf(hit)) < -(Scale \div 10) * Scale
        /\ alongInward(hit.velAfter, wallOf(hit)) < 0

\* an inward wall corrects an agent that is entering
InwardBlocksEntering ==
    \E hit \in Hits :
        /\ wallOf(hit).polarity = "inward"
        /\ alongInward(hit.velBefore, wallOf(hit)) > 0
        /\ hit.posAfter # hit.posBefore

\* every wall of the container is solid
allSolid(c) == \A k \in DOMAIN c.walls : c.walls[k].polarity = "solid"

\* the point is inside the bounds and on none of the four wall lines
strictlyInside(c, point) ==
    /\ point.x > c.worldX /\ point.x < c.worldX + c.width
    /\ point.y > c.worldY /\ point.y < c.worldY + c.height

\* a frame has just run to its end
FrameEnded == pc = "idle" /\ last.op = "computePolygon"

\* C3: with all four walls of a container solid, an agent that is inside the
\* container bounds when a frame starts is strictly inside them when the
\* frame ends.
C3_SolidContainerKeepsAgents ==
    FrameEnded =>
        \A c \in DOMAIN containers : \A k \in DOMAIN voroboids :
            (allSolid(containers[c]) /\ containsPoint(containers[c], before[k].position))
            => strictlyInside(containers[c], voroboids[k].position)

C3_Witness ==
    /\ FrameEnded
    /\ \E c \in DOMAIN containers : \E k \in DOMAIN voroboids :
           /\ allSolid(containers[c])
           /\ containsPoint(containers[c], before[k].position)
           /\ ~containsPoint(containers[c], voroboids[k].position)

\* which side of the wall's line the point is on: positive on the side that
\* inwardNormal points to
sideOf(point, wall) == dot(sub(point, wall.start), wall.inwardNormal)

\* the difference that rounding a unit vector to 1/Scale can make to a
\* length measured along it
Tolerance(length) == length \div 50 + 2

\* C4: the correction of a blocking wall leaves the agent at exactly the
\* margin distance from the segment, on the side it came from, with no
\* velocity component toward the wall.
C4_CorrectionToMargin ==
    \A hit \in Hits :
        /\ Abs(pointToSegment(hit.posAfter, wallOf(hit).start, wallOf(hit).end).distance
               - margin) <= Tolerance(margin)
        /\ sideOf(last.self.position, wallOf(hit)) > 0 => sideOf(hit.posAfter, wallOf(hit)) > 0
        /\ sideOf(last.self.position, wallOf(hit)) < 0 => sideOf(hit.posAfter, wallOf(hit)) < 0
        /\ velTowardWall(hit.velAfter, hit.away) <= 0

C4_Witness ==
    \E hit \in Hits :
        /\ hit.distance < margin
        /\ velTowardWall(hit.velBefore, hit.away) > Scale * Scale
        /\ velTowardWall(hit.velAfter, hit.away) > 0

\* the correction leaves the agent on the far side of the wall it started
\* the frame inside of
CorrectedToFarSide ==
    \E hit \in Hits :
        /\ sideOf(last.self.position, wallOf(hit)) > 0
        /\ sideOf(hit.posAfter, wallOf(hit)) < 0

\* what holds of C4: the correction moves the agent by margin - distance
\* along the direction from the wall to the agent
CorrectionAlongAway ==
    \A hit \in Hits :
        /\ hit.distance < margin
        /\ hit.posAfter = add(hit.posBefore, mul(hit.away, margin - hit.distance))

\* the records of resolveCollisions in the update that ran last
Pushes == IF last.op = "update" THEN { collided.pushes[i] : i \in DOMAIN collided.pushes }
          ELSE {}

\* overlap * 0.5 * weight / (weight + otherWeight)
weightedShare(overlap, weight, total) == RDiv(overlap * weight, 2 * total)

\* how far the other voroboid of a push has moved since the frame started;
\* a voroboid that comes later in the list has not had its own update yet
displacementOf(other) ==
    magnitude(sub(voroboids[other + 1].position, before[other + 1].position))

\* C10: resolving an overlap between A and B displaces A by
\* overlap * 0.5 * wB / (wA + wB) and B by overlap * 0.5 * wA / (wA + wB).
C10_WeightedCorrection ==
    \A push \in Pushes :
        /\ Abs(magnitude(push.correction)
               - weightedShare(push.overlap, voroboids[push.other + 1].weight,
                               last.self.weight + voroboids[push.other + 1].weight))
              <= Tolerance(push.overlap)
        /\ push.other > last.self.id =>
              Abs(displacementOf(push.other)
                  - weightedShare(push.overlap, last.self.weight,
                                  last.self.weight + voroboids[push.other + 1].weight))
                 <= Tolerance(push.overlap)

C10_Witness ==
    \E push \in Pushes :
        /\ push.overlap > 10 * Scale
        /\ last.self.weight > voroboids[push.other + 1].weight
        /\ push.other > last.self.id
        /\ displacementOf(push.other) = 0

\* what holds of C10: the voroboid being updated moves by half the overlap,
\* whatever the weights
HalfOverlapCorrection ==
    \A push \in Pushes :
        Abs(magnitude(push.correction) - FMul(push.overlap, 50)) <= Tolerance(push.overlap)

----------------------------------------------------------------------------
(* Properties of the tessellation *)

\* a tessellation (computePolygon of one voroboid) has just run
Tessellated == last.op = "computePolygon"

areaAndPressureAgree(v) ==
    /\ v.currentArea = Abs(polygonArea(v.polygon))
    /\ v.currentArea > 0 => v.pressure = FDiv(v.targetArea, v.currentArea)
    /\ v.currentArea = 0 => v.pressure = Scale

\* C6: after every tessellation currentArea is the absolute area of the
\* stored polygon, and pressure is targetArea / currentArea, unclamped, when
\* currentArea > 0 and 1 when currentArea is 0.
C6_AreaAndPressure ==
    /\ Tessellated => areaAndPressureAgree(handled)
    /\ \A k \in DOMAIN voroboids :
           voroboids[k].polygon # << >> => areaAndPressureAgree(voroboids[k])

C6_Witness ==
    /\ Tessellated
    /\ handled.currentArea > 0
    /\ handled.pressure < Scale \div 2
    /\ \E k \in DOMAIN voroboids : voroboids[k].pressure > 2 * Scale

\* a tessellation that stores a polygon of no area
ZeroAreaTessellation ==
    /\ Tessellated
    /\ Len(handled.polygon) >= 3
    /\ handled.currentArea = 0
    /\ handled.pressure = Scale

\* the regular octagon of radius blobRadius around the centre, first vertex
\* to the right of it
isOctagonAround(polygon, centre) ==
    /\ Len(polygon) = 8
    /\ polygon[1] = vec2(centre.x + blobRadius, centre.y)
    /\ polygon[3] = vec2(centre.x, centre.y + blobRadius)
    /\ polygon[5] = vec2(centre.x - blobRadius, centre.y)
    /\ polygon[7] = vec2(centre.x, centre.y - blobRadius)
    /\ \A i \in {2, 4, 6, 8} :
           /\ Abs(magnitude(sub(polygon[i], centre)) - blobRadius) <= Tolerance(blobRadius)
           /\ Abs(polygon[i].x - centre.x) = Abs(polygon[i].y - centre.y)

StoredIsSmoothed ==
    /\ Tessellated
    /\ clip.fallback
    /\ ~isOctagonAround(handled.polygon, last.self.position)

\* what computePolygon stores for a voroboid that holds no polygon of an
\* earlier frame: the polygon of the clipping loop, its area, the pressure
storedAfresh == stored([last.self EXCEPT !.polygon = << >>], clip.polygon)

\* C21: the polygon a tessellation produces is a function of the frame's
\* inputs only: with equal inputs and a different polygon left over from
\* earlier frames (here: none) the polygon, currentArea and pressure are the
\* same.
C21_TessellationIgnoresHistory ==
    Tessellated =>
        /\ handled.polygon = storedAfresh.polygon
        /\ handled.currentArea = storedAfresh.currentArea
        /\ handled.pressure = storedAfresh.pressure

C21_Witness ==
    /\ Tessellated
    /\ frames = 2
    /\ Len(last.self.polygon) >= 3
    /\ ~ clip.fallback
    /\ handled.polygon # storedAfresh.polygon
    /\ handled.pressure # storedAfresh.pressure

\* what holds of C21: a voroboid that holds no polygon yet stores the polygon
\* of the clipping loop as it is
FirstTessellationUnsmoothed ==
    (Tessellated /\ Len(last.self.polygon) = 0) => handled.polygon = clip.polygon

----------------------------------------------------------------------------
(* Properties of the containers *)

\* C20: after any sequence of setPolarity, updatePosition and rebuildWalls
\* calls, every wall of a container carries the polarity getPolarity()
\* returns; no two walls of a container differ in polarity.
C20_WallsShareContainerPolarity ==
    \A id \in DOMAIN containers :
        \A k \in DOMAIN containers[id].walls :
            containers[id].walls[k].polarity = getPolarity(containers[id])

C20_Witness ==
    /\ last.op = "setPolarity"
    /\ events = 2
    /\ getPolarity(containers["a"]) = "permeable"
    /\ getPolarity(containers["b"]) = "outward"
    /\ Len(containers["a"].walls) = 4
    /\ \A k \in DOMAIN containers["a"].walls :
          containers["a"].walls[k].polarity = "permeable"

\* the container pourTo(targetId) pours from
sourceOf(targetId) == IF targetId = "a" THEN "b" ELSE "a"

\* the step is a call of pourTo
Poured == last'.op = "pourTo"

PouredUnregistered == last.op = "pourTo" /\ last.self \notin DOMAIN containers

----------------------------------------------------------------------------
(* Properties of the settled flag *)

slow(voroboid) == magnitude(voroboid.velocity) < settleThreshold

\* C23: settled is true after an update only if the speed was below the
\* threshold at the end of that update and of an unbroken run of preceding
\* updates whose deltaTime values sum to more than 200 ms (settleTime is at
\* most the sum over that run); an update that ends with speed >= 0.5 sets
\* settleTime to 0 and settled to false.
C23_SettledAfterQuietRun ==
    last.op = "update" =>
        /\ handled.settled => slow(handled) /\ handled.settleTime > settleDelay
        /\ ~ slow(handled) => handled.settleTime = 0 /\ ~ handled.settled
        /\ handled.settleTime <= last.self.settleTime + frameDeltaTime

C23_Witness ==
    /\ last.op = "update"
    /\ handled.settled
    /\ ~ last.self.settled
    /\ last.self.settleTime > 0

\* an update has found a settled voroboid moving again
SettledThenMoved ==
    /\ last.op = "update"
    /\ last.self.settled
    /\ ~ handled.settled

\* an update has ended a run of slow updates
QuietRunBroken ==
    /\ last.op = "update"
    /\ last.self.settleTime > 0
    /\ ~ slow(handled)

----------------------------------------------------------------------------
(* Properties of the pull toward the target container *)

\* the force update applied toward the magnet of the target container
seekForce == computeGravity(last.self, getMagnetForVoroboid(containers, last.self))

\* the voroboid update handled was within the bounds of its target container
insideTarget == containsPoint(containers[last.self.targetContainerId], last.self.position)

towardMagnet(force) ==
    dot(force, sub(getMagnetForVoroboid(containers, last.self).position,
                   last.self.position)) > 0

\* C18: a voroboid inside the bounds of its target region receives no seek
\* force in that frame; one outside receives a seek force of the fixed
\* magnitude directed at the region's attractor, whatever its distance.
C18_SeekOnlyOutside ==
    last.op = "update" =>
        /\ insideTarget => seekForce = vec2(0, 0)
        /\ ~ insideTarget =>
              /\ Abs(magnitude(seekForce) - gravityStrength) <= Tolerance(gravityStrength)
              /\ towardMagnet(seekForce)

C18_Witness ==
    /\ last.op = "update"
    /\ insideTarget
    /\ Abs(magnitude(seekForce) - gravityStrength) <= Tolerance(gravityStrength)
    /\ towardMagnet(seekForce)

\* what holds of C18: inside or outside, a voroboid that is not exactly on
\* the magnet is pulled toward it with the fixed strength
SeekEverywhere ==
    (last.op = "update"
     /\ last.self.position # getMagnetForVoroboid(containers, last.self).position) =>
        /\ Abs(magnitude(seekForce) - gravityStrength) <= Tolerance(gravityStrength)
        /\ towardMagnet(seekForce)

\* an update of a voroboid outside its target container
SeekFromOutside == last.op = "update" /\ ~ insideTarget

----------------------------------------------------------------------------
(* Properties of one frame of a pair of voroboids *)

\* every voroboid of the frame has had its update (integration and collision
\* resolution); no tessellation of the frame has run yet
UpdatesEnded == pc = "polygons" /\ cursor = 1 /\ last.op = "update"

distanceBetween(list) == magnitude(sub(list[1].position, list[2].position))

\* the collision resolution of this frame has moved a voroboid of the pair
pairPushed == pushed[1] # vec2(0, 0) \/ pushed[2] # vec2(0, 0)

\* C11: for a pair of equal weights closer than the minimum distance, the
\* collision resolution of a frame displaces the two by equal amounts in
\* opposite directions (the midpoint stays), and leaves them no farther
\* apart than the minimum distance.
C11_EqualOppositeDisplacement ==
    (UpdatesEnded /\ voroboids[1].weight = voroboids[2].weight /\ pairPushed) =>
        /\ magnitude(add(pushed[1], pushed[2])) <= Tolerance(minDist)
        /\ distanceBetween(voroboids) <= minDist + Tolerance(minDist)

C11_Witness ==
    /\ UpdatesEnded
    /\ voroboids[1].weight = voroboids[2].weight
    /\ magnitude(pushed[1]) > 10 * Scale
    /\ magnitude(pushed[2]) > 5 * Scale
    /\ magnitude(add(pushed[1], pushed[2])) > 5 * Scale

\* what holds of C11: no voroboid is moved by more than half the minimum
\* distance, and the pair is not left farther apart than the minimum distance
\* by the corrections alone
PushAtMostHalfMinDist ==
    \A i \in DOMAIN pushed : magnitude(pushed[i]) <= FMul(minDist, 50) + Tolerance(minDist)

\* the other voroboid of the pair, as the step that has just run saw it
neighborOf(self) == voroboids[2 - self.id]

\* the tessellation that has just run clipped against its neighbour
clippedByNeighbor ==
    /\ last.op = "computePolygon"
    /\ distanceBetween(voroboids) > 0
    /\ distanceBetween(voroboids) <= blobRadius * 6

\* C12: with equal pressure and weights wA > wB, the bisector point A clips
\* against lies strictly closer to B than the midpoint of the two positions
\* (lerp parameter above 0.5).
C12_HeavierReachesPastMidpoint ==
    (/\ clippedByNeighbor
     /\ last.self.pressure = neighborOf(last.self).pressure
     /\ last.self.weight > neighborOf(last.self).weight) =>
        /\ pressureRatio(last.self, neighborOf(last.self)) > TScale \div 2
        /\ 2 * magnitude(sub(bisectorPoint(last.self, neighborOf(last.self)),
                              neighborOf(last.self).position))
              < distanceBetween(voroboids)

C12_Witness ==
    /\ clippedByNeighbor
    /\ last.self.pressure = neighborOf(last.self).pressure
    /\ last.self.weight = 200
    /\ neighborOf(last.self).weight = 50
    /\ distanceBetween(voroboids) > 30 * Scale
    /\ pressureRatio(last.self, neighborOf(last.self)) = TScale \div 2

\* what holds of C12: the lerp parameter is above 0.5 exactly when the
\* voroboid's pressure, floored at 0.1, is above its neighbour's
BisectorFollowsPressure ==
    clippedByNeighbor =>
        (pressureRatio(last.self, neighborOf(last.self)) > TScale \div 2
            <=> floored(last.self.pressure) > floored(neighborOf(last.self).pressure))

\* the update that has just run (forces, integration, collision resolution
\* of last.self) found its neighbour as the frame found it
neighbourUntouched ==
    /\ neighborOf(last.self).position = before[2 - last.self.id].position
    /\ neighborOf(last.self).velocity = before[2 - last.self.id].velocity

\* while the updates of a frame run, no voroboid of the frame has been
\* tessellated
TessellationAfterAllUpdates ==
    /\ pc = "update" =>
          \A i \in DOMAIN voroboids :
              /\ voroboids[i].polygon = before[i].polygon
              /\ voroboids[i].pressure = before[i].pressure
    /\ last.op = "computePolygon" => pc # "update"

\* C15: within one frame the steps run as complete passes: no voroboid's
\* force computation reads a neighbour position or velocity already
\* integrated or collision-corrected in the same frame, and no tessellation
\* runs before every voroboid has been integrated and collision-corrected.
C15_CompletePasses ==
    /\ last.op = "update" => neighbourUntouched
    /\ TessellationAfterAllUpdates

C15_Witness ==
    /\ last.op = "update"
    /\ last.self.id = 1
    /\ distanceBetween(before) < minDist
    /\ magnitude(sub(voroboids[1].position, before[1].position)) > 10 * Scale
    /\ pushed[2] # vec2(0, 0)

\* C16: pressure feedback is lagged by exactly one frame: a pressure written
\* by a tessellation of frame n is visible to no force computation of frame
\* n, and whatever reads a voroboid's pressure in frame n+1 reads the value
\* written in frame n, the same snapshot for all voroboids.
C16_PressureLaggedOneFrame ==
    /\ pc = "update" =>
          \A i \in DOMAIN voroboids : voroboids[i].pressure = before[i].pressure
    /\ last.op = "update" => neighborOf(last.self).pressure = before[2 - last.self.id].pressure
    /\ clippedByNeighbor =>
          neighborOf(last.self).pressure = before[2 - last.self.id].pressure

C16_Witness ==
    /\ clippedByNeighbor
    /\ frames = 2
    /\ last.self.id = 1
    /\ before[1].pressure # Scale
    /\ neighborOf(last.self).pressure # before[1].pressure

\* the voroboids as the update that has just run found them, with every
\* pressure replaced
withPressure(value) ==
    [ i \in DOMAIN voroboids |->
        [(IF i = last.self.id + 1 THEN last.self ELSE voroboids[i]) EXCEPT !.pressure = value] ]

\* what holds of C16: the forces of an update do not depend on any pressure;
\* pressure is read by the bisector of computePolygon alone
ForcesIgnorePressure ==
    last.op = "update" =>
        \A value \in { Scale \div 2, 3 * Scale } :
            velIntegrated =
                integratedVelocity(withPressure(value)[last.self.id + 1], withPressure(value),
                                   last.walls, getMagnetForVoroboid(containers, last.self), TRUE)

\* the voroboids as the update that has just run found them
found ==
    [ i \in DOMAIN voroboids |-> IF i = last.self.id + 1 THEN last.self ELSE voroboids[i] ]

\* the forces that update accumulated, the damping force left out
steering ==
    sub(acceleration(last.self, found, last.walls,
                     getMagnetForVoroboid(containers, last.self), TRUE),
        mul(last.self.velocity, -damping))

closeTo(a, b) == Abs(a.x - b.x) <= 2 /\ Abs(a.y - b.y) <= 2

\* C17: the velocity after integration is the sum of the old velocity and
\* the accumulated forces, multiplied by the damping factor and then clamped
\* to the maximum speed; the position is then advanced by that velocity.
C17_DampedSumThenClamp ==
    last.op = "update" =>
        /\ closeTo(velIntegrated,
                   limit(mul(add(last.self.velocity, steering), Scale - damping), maxSpeed))
        /\ closeTo(posIntegrated, add(last.self.position, velIntegrated))

C17_Witness ==
    /\ last.op = "update"
    /\ magnitude(steering) > Scale
    /\ magnitude(add(last.self.velocity, steering)) < 3 * Scale
    /\ ~ closeTo(velIntegrated,
                  limit(mul(add(last.self.velocity, steering), Scale - damping), maxSpeed))

\* what holds of C17: damping scales the old velocity alone, the forces are
\* added in full, the clamp comes last, and the position advances by the
\* velocity times deltaTime * 0.06
DampedVelocityPlusForces ==
    last.op = "update" =>
        /\ closeTo(velIntegrated,
                   limit(add(mul(last.self.velocity, Scale - damping), steering), maxSpeed))
        /\ magnitude(velIntegrated) <= maxSpeed + 2
        /\ posIntegrated = add(last.self.position, mul(velIntegrated, frameDeltaTime * 6))

\* the velocity the update that has just run would have integrated had the
\* voroboid been alone
velocityAlone ==
    integratedVelocity(last.self, << last.self >>, last.walls,
                       getMagnetForVoroboid(containers, last.self), TRUE)

\* C19: when the two voroboids have exactly the same position, the pair
\* contributes nothing to either in that frame: no repulsion or flocking
\* force, no collision displacement, no velocity change.
C19_CoincidentPairInert ==
    (last.op = "update" /\ frames = 1 /\ distanceBetween(before) = 0) =>
        /\ velIntegrated = velocityAlone
        /\ collided.pushes = << >>
        /\ collided.position = posIntegrated
        /\ collided.velocity = velIntegrated

C19_Witness ==
    /\ last.op = "update"
    /\ frames = 1
    /\ distanceBetween(before) = 0
    /\ before[1].velocity = before[2].velocity
    /\ last.self.id = 0
    /\ velIntegrated = velocityAlone
    /\ magnitude(pushed[1]) > 10 * Scale

\* what holds of C19: a neighbour at distance exactly 0 when the forces are
\* computed adds no force, and one at distance exactly 0 after the
\* integration causes no correction
ZeroDistanceSkipped ==
    last.op = "update" =>
        /\ last.self.position = neighborOf(last.self).position =>
              velIntegrated = velocityAlone
        /\ posIntegrated = neighborOf(last.self).position =>
              collided.pushes = << >>

\* the tessellation pass of a frame has ended with the second voroboid, in
\* reach of the first
PassEnded == clippedByNeighbor /\ last.self.id = 1

\* the bisector point the first voroboid of the pass clipped against: it
\* read its own pressure as the frame found it
bisectorOfFirst ==
    bisectorPoint([voroboids[1] EXCEPT !.pressure = before[1].pressure], last.self)

\* the bisector point the second voroboid of the pass clipped against
bisectorOfSecond == bisectorPoint(last.self, voroboids[1])

\* C24: in one tessellation pass the bisector point i uses when clipping
\* against j is the point j uses when clipping against i.
C24_CommonBisector ==
    PassEnded => closeTo(bisectorOfFirst, bisectorOfSecond)

C24_Witness ==
    /\ PassEnded
    /\ voroboids[1].pressure # before[1].pressure
    /\ magnitude(sub(bisectorOfFirst, bisectorOfSecond)) > 5 * Scale

\* what holds of C24: when the first voroboid's tessellation leaves its
\* pressure as it was, both clip at one point
CommonBisectorAtEqualReads ==
    (PassEnded /\ voroboids[1].pressure = before[1].pressure) =>
        closeTo(bisectorOfFirst, bisectorOfSecond)

\* C25: at the end of every update the speed is at most config.maxSpeed: the
\* velocity changes after the clamp (collision damping, wall damping) never
\* raise the speed above it.
C25_SpeedWithinMax ==
    last.op = "update" => magnitude(handled.velocity) <= maxSpeed + 2

C25_Witness ==
    /\ last.op = "update"
    /\ magnitude(velIntegrated) <= maxSpeed + 2
    /\ collided.pushes # << >>
    /\ magnitude(collided.velocity) > maxSpeed + 10
    /\ magnitude(handled.velocity) > maxSpeed + 10

\* what holds of C25: the clamp itself holds, and the wall damping never
\* raises the speed resolveCollisions left
ClampThenWallsSlow ==
    last.op = "update" =>
        /\ magnitude(velIntegrated) <= maxSpeed + 2
        /\ magnitude(walled.velocity) <= magnitude(collided.velocity) + 2

----------------------------------------------------------------------------
(* Properties of the cell around its voroboid                               *)

\* the vertex after vertex i of a polygon
vertexAfter(polygon, i) == polygon[(i % Len(polygon)) + 1]

\* the edge from a to b crosses the horizontal ray that leaves p to the right
crossesRay(p, a, b) ==
    /\ (a.y > p.y) # (b.y > p.y)
    /\ IF b.y > a.y
       THEN (p.x - a.x) * (b.y - a.y) < (p.y - a.y) * (b.x - a.x)
       ELSE (p.x - a.x) * (b.y - a.y) > (p.y - a.y) * (b.x - a.x)

\* how far p is from the nearest edge of a polygon, in 1/100 px, is at most d
nearEdge(p, polygon, d) ==
    \E i \in DOMAIN polygon :
        pointToSegment(p, polygon[i], vertexAfter(polygon, i)).distance <= d

\* p lies in the polygon: the ray from p crosses an odd number of edges
interior(p, polygon) ==
    Cardinality({ i \in DOMAIN polygon :
                    crossesRay(p, polygon[i], vertexAfter(polygon, i)) }) % 2 = 1

\* p lies inside the polygon or on its boundary, to 0.02 px
insideOrOn(p, polygon) ==
    Len(polygon) >= 3 /\ (interior(p, polygon) \/ nearEdge(p, polygon, 2))

\* C27: after computePolygon the voroboid's position lies inside its polygon
\* or on its boundary
C27_PositionInsideCell ==
    Tessellated => insideOrOn(handled.position, handled.polygon)

\* a voroboid outside the bounds of its target container is given a cell
\* over there, more than a pixel away from it
C27_Witness ==
    /\ Tessellated
    /\ ~ containsPoint(containers[handled.targetContainerId], handled.position)
    /\ Len(handled.polygon) >= 3
    /\ ~ interior(handled.position, handled.polygon)
    /\ ~ nearEdge(handled.position, handled.polygon, Scale)

\* what holds: a voroboid inside the bounds of its target container lies in
\* the polygon of the clipping loop
InsideClippedInTarget ==
    Tessellated /\ containsPoint(containers[handled.targetContainerId], handled.position)
        => insideOrOn(handled.position, clip.polygon)

----------------------------------------------------------------------------
(* Properties of start and stop                                             *)

\* C26: after stop() has returned and until start() is called again no
\* frame runs, and at no time is more than one frame requested
C26_StopEndsLoop ==
    /\ stopped => last.op # "loop"
    /\ Cardinality(requested) <= 1

\* start() twice, stop(), and the browser runs a frame all the same
C26_Witness ==
    /\ stopped
    /\ last.op = "loop"
    /\ animationId # null
    /\ Cardinality(requested) = 1

\* what holds: stop() leaves animationId null and cancels the latest request;
\* the requests of earlier start() calls stay
StopCancelsLatest ==
    last.op = "stop" => animationId = null /\ frames \notin requested

----------------------------------------------------------------------------
(* Properties of a migration                                                *)

\* the voroboids the flight renderer holds while a migration is under way
migrating == IF isMigrating THEN held(flightRenderer) ELSE {}

\* in no container's list
inNoContainer(id) == \A c \in DOMAIN containers : id \notin held(containers[c].voroboids)

\* C28: from migrate until the arrival is completed a migrating voroboid is
\* in no container's list and is updated once per frame; a migrate call
\* made during a migration changes nothing; when all have arrived the target
\* holds exactly the voroboids that were in the source, and isMigrating is
\* false
C28_FlightRendererOnly ==
    /\ \A id \in migrating :
          /\ inNoContainer(id)
          /\ last.op = "update" => voroboids[id].updates = 1
    /\ last.op = "migrate refused" /\ before.found[3][1]
          => <<containers, voroboids, flightVars>> = before.found
    /\ last.op = "landed"
          => /\ held(containers[last.self].voroboids) = held(before.moved)
             /\ Len(containers[last.self].voroboids) = Len(before.moved)
             /\ ~ isMigrating

\* a frame during a migration from a to b: the voroboids in flight are in
\* the list of b too, and were updated twice
C28_Witness ==
    /\ last.op = "update"
    /\ isMigrating
    /\ targetContainerId = "b"
    /\ containers["a"].voroboids = << >>
    /\ \A id \in held(flightRenderer) :
          /\ id \in held(containers["b"].voroboids)
          /\ voroboids[id].updates = 2
    /\ \E id \in held(flightRenderer) : ~ voroboids[id].arrived

\* what holds: the source is emptied, a refused call changes nothing, and
\* the landing leaves the target with the voroboids of the source
SourceEmptiedTargetFilled ==
    /\ last.op = "migrate" /\ last.self[1] # last.self[2]
          => containers[last.self[1]].voroboids = << >>
    /\ last.op = "migrate refused"
          => <<containers, voroboids, flightVars>> = before.found
    /\ last.op = "landed"
          => /\ containers[last.self].voroboids = before.moved
             /\ ~ isMigrating
             /\ flightRenderer = << >>

----------------------------------------------------------------------------
(* Properties of the two-mode voroboid                                      *)

\* the two-mode voroboid, and the one the latest operation found
agent == voroboids[1]

\* targetBounds and targetOpening are both set, or both null
targetSet(self) == self.targetBounds # << >> /\ self.targetOpening # "null"

targetNull(self) == self.targetBounds = << >> /\ self.targetOpening = "null"

\* C29: the mode is migrating exactly when targetBounds and targetOpening
\* are set and settled exactly when both are null; morphProgress is 1 after
\* an update in migrating mode; in settled mode it never increases and
\* never drops below 0
C29_ModeMatchesTarget ==
    /\ agent.mode = "migrating" <=> targetSet(agent)
    /\ agent.mode = "settled" <=> targetNull(agent)
    /\ last.op = "update" /\ last.self.mode = "migrating" => agent.morphProgress = TScale
    /\ last.self.mode = "settled" /\ agent.mode = "settled"
          => agent.morphProgress <= last.self.morphProgress /\ agent.morphProgress >= 0

\* a voroboid that has left its container, arrived in the course of an
\* update and has begun to morph back in the target container
C29_Witness ==
    /\ last.op = "update"
    /\ last.self.mode = "settled"
    /\ agent.mode = "settled"
    /\ agent.containerBounds = << flockBounds >>
    /\ agent.containerOpening = "left"
    /\ agent.morphProgress < last.self.morphProgress
    /\ events = 1

\* an update can end a migration: the voroboid arrives
ArrivesInUpdate ==
    /\ last.op = "update"
    /\ last.self.mode = "migrating"
    /\ agent.mode = "settled"
    /\ agent.morphProgress = TScale

\* morphProgress reaches 0 and stays there
MorphedBack ==
    /\ last.op = "update"
    /\ last.self.mode = "settled"
    /\ last.self.morphProgress > 0
    /\ agent.morphProgress = 0

----------------------------------------------------------------------------
(* Properties of the container's opening                                    *)

\* the cycle right -> bottom -> left -> top -> right
turned(opening) ==
    CASE opening = "right" -> "bottom"
      [] opening = "bottom" -> "left"
      [] opening = "left" -> "top"
      [] opening = "top" -> "right"

\* both ends of the wall lie on that side of the container
onSide(c, wall, side) ==
    CASE side = "top" -> wall.start.y = c.worldY /\ wall.end.y = c.worldY
      [] side = "bottom" ->
            wall.start.y = c.worldY + c.height /\ wall.end.y = c.worldY + c.height
      [] side = "left" -> wall.start.x = c.worldX /\ wall.end.x = c.worldX
      [] side = "right" ->
            wall.start.x = c.worldX + c.width /\ wall.end.x = c.worldX + c.width

\* three walls, one on each side but the opening
threeWalls(c) ==
    /\ Len(c.walls) = 3
    /\ \A k \in DOMAIN c.walls : ~ onSide(c, c.walls[k], c.opening)
    /\ \A side \in OpeningSides \ {c.opening} :
          \E k \in DOMAIN c.walls : onSide(c, c.walls[k], side)

\* C30: rotateOpening moves the opening through the cycle right -> bottom ->
\* left -> top -> right, four calls in a row restore the opening and the
\* walls, and after the constructor and every rotateOpening or
\* setWorldPosition the container has three walls, none on the opening side
C30_OpeningCycle ==
    containers # << >> =>
        /\ threeWalls(containers["a"])
        /\ last.op = "rotateOpening" => containers["a"].opening = turned(last.self.opening)
        /\ Len(before) >= 4 => containers["a"] = before[Len(before) - 3]

\* the fourth rotateOpening in a row, of a container that was moved before
C30_Witness ==
    /\ containers # << >>
    /\ last.op = "rotateOpening"
    /\ Len(before) = 4
    /\ events = 5
    /\ containers["a"] = before[1]
    /\ containers["a"] # before[2]
    /\ containers["a"].worldX # 0

----------------------------------------------------------------------------
(* Properties of freshly created voroboids *)

Initialized == last.op = "initializeVoroboids"

\* C13: every voroboid's targetArea equals pi * blobRadius^2 * weight for its
\* current blobRadius and weight, in particular right after
\* initializeVoroboids has assigned blobRadius from the configuration.
C13_TargetAreaFollowsRadius ==
    \A i \in DOMAIN voroboids :
        voroboids[i].targetArea = circleArea(voroboids[i].blobRadius, voroboids[i].weight)

C13_Witness ==
    /\ Initialized
    /\ \E i \in DOMAIN voroboids :
          /\ voroboids[i].blobRadius = 30 * Scale
          /\ voroboids[i].blobRadius = config.blobRadius
          /\ voroboids[i].weight = 200
          /\ voroboids[i].targetArea = circleArea(25 * Scale, 200)

\* what holds of C13: targetArea is the area for the radius the class
\* declares, whatever radius the configuration assigns afterwards
TargetAreaOfDefaultRadius ==
    \A i \in DOMAIN voroboids :
        voroboids[i].targetArea = circleArea(defaultBlobRadius, voroboids[i].weight)

\* C14: no voroboid with weight <= 0 or blobRadius <= 0 exists, and
\* targetArea is strictly positive for every voroboid in every state.
C14_PositiveWeightAndArea ==
    \A i \in DOMAIN voroboids :
        /\ voroboids[i].weight > 0
        /\ voroboids[i].blobRadius > 0
        /\ voroboids[i].targetArea > 0

C14_Witness ==
    /\ Initialized
    /\ \E i \in DOMAIN voroboids : voroboids[i].weight = 0 /\ voroboids[i].targetArea = 0
    /\ \E i \in DOMAIN voroboids : voroboids[i].weight < 0 /\ voroboids[i].targetArea < 0

\* what holds of C14: a voroboid has the weight of its configuration, and
\* its targetArea has the sign of that weight
WeightAsConfigured ==
    \A i \in DOMAIN voroboids :
        /\ voroboids[i].weight \in ConfigWeights
        /\ (voroboids[i].targetArea > 0) <=> (voroboids[i].weight > 0)
        /\ (voroboids[i].targetArea = 0) <=> (voroboids[i].weight = 0)

----------------------------------------------------------------------------
(* clipPolygonByPlane applied to bounded inputs *)

GridMax == 2

GridStep == 10

GridPoints == { vec2(i * GridStep, j * GridStep) : i, j \in 0 .. GridMax }

\* polygons of 2 or 3 pairwise distinct grid vertices, and the grid rectangles
ClipPolygons ==
    { p \in UNION { [1 .. n -> GridPoints] : n \in 2 .. 3 } :
        \A i, j \in DOMAIN p : i # j => p[i] # p[j] }
    \cup { rectToPolygon(0, 0, w * GridStep, h * GridStep) : w, h \in 1 .. GridMax }

ClipNormals ==
    { vec2(a, b) : a, b \in {-1, 0, 1, 2} } \ { vec2(0, 0) }

ClipInit ==
    /\ LoopOff
    /\ FlightOff
    /\ clipPc = "in"
    /\ clipIn \in ClipPolygons
    /\ clipPlane \in [point : GridPoints, normal : ClipNormals]
    /\ clipOut1 = << >>
    /\ clipOut2 = << >>
    /\ config = [blobRadius |-> blobRadius]
    /\ activeMagnetContainer = "a"
    /\ containers = << >>
    /\ voroboids = << >>
    /\ pc = "idle"
    /\ cursor = 1
    /\ frameDeltaTime = 0
    /\ frames = 0
    /\ events = 0
    /\ before = << >>
    /\ last = idle("none")
    /\ NoStep

ClipOnce ==
    /\ clipPc = "in"
    /\ clipPc' = "once"
    /\ clipOut1' = clipPolygonByPlane(clipIn, clipPlane.point, clipPlane.normal)
    /\ UNCHANGED <<clipIn, clipPlane, clipOut2, sysVars, loopVars, flightVars>>

ClipTwice ==
    /\ clipPc = "once"
    /\ clipPc' = "twice"
    /\ clipOut2' = clipPolygonByPlane(clipOut1, clipPlane.point, clipPlane.normal)
    /\ UNCHANGED <<clipIn, clipPlane, clipOut1, sysVars, loopVars, flightVars>>

ClipNext == ClipOnce \/ ClipTwice

ClipSpec == ClipInit /\ [][ClipNext]_vars

\* signed distance (times |normal|, in units of 1/Scale^2) of v from the plane
planeDist(v) == dot(sub(v, clipPlane.point), clipPlane.normal)

RECURSIVE IsSubsequence(_, _)
IsSubsequence(s, t) ==
    IF s = << >> THEN TRUE
    ELSE IF t = << >> THEN FALSE
    ELSE IF Head(s) = Head(t) THEN IsSubsequence(Tail(s), Tail(t))
    ELSE IsSubsequence(s, Tail(t))

insideVertices(polygon) == SelectSeq(polygon, LAMBDA v : planeDist(v) <= 0)

\* C7: clipping the result of a clip again with the same plane returns that
\* result unchanged (same vertices in the same order).
C7_ClipIdempotent == clipPc = "twice" => clipOut2 = clipOut1

\* C7 case: a first clip that cut an edge (emitted an intersection vertex)
\* was clipped a second time.
C7_Witness ==
    /\ clipPc = "twice"
    /\ Len(clipIn) >= 3
    /\ \E k \in DOMAIN clipOut1 : \A i \in DOMAIN clipIn : clipOut1[k] # clipIn[i]

\* C8: for an input of at least 3 vertices every vertex of the result lies on
\* the kept side (dot(vertex - planePoint, planeNormal) <= 0), the input
\* vertices on the kept side appear in the result in their original order, and
\* the result is empty when every input vertex is strictly on the normal side.
C8_ClipKeepsInside ==
    (clipPc # "in" /\ Len(clipIn) >= 3) =>
        /\ \A k \in DOMAIN clipOut1 : planeDist(clipOut1[k]) <= 0
        /\ IsSubsequence(insideVertices(clipIn), clipOut1)
        /\ (\A i \in DOMAIN clipIn : planeDist(clipIn[i]) > 0) => clipOut1 = << >>

\* C8 case: a polygon of 3 or more vertices was cut by the plane.
C8_Witness ==
    /\ clipPc = "once"
    /\ Len(clipIn) >= 3
    /\ \E i, j \in DOMAIN clipIn : planeDist(clipIn[i]) > 0 /\ planeDist(clipIn[j]) < 0

\* the parts of C8 that do not depend on where an intersection vertex lands
ClipKeepsInputOrder ==
    (clipPc # "in" /\ Len(clipIn) >= 3) =>
        /\ IsSubsequence(insideVertices(clipIn), clipOut1)
        /\ (\A i \in DOMAIN clipIn : planeDist(clipIn[i]) > 0) => clipOut1 = << >>

=============================================================================
